---- MODULE Spec2Model ----
(***************************************************************************)
(* Keep Me Focus: the rule enforcement engine of one page context          *)
(* (RulesService.applyRule and the limit monitor), the URL change          *)
(* detector that drives it, the uptime reply of the background script and  *)
(* the persisted rule sequence shared with other contexts.                 *)
(*                                                                         *)
(* Time is in milliseconds.  usedMinutes is kept as usedMs, the same       *)
(* quantity multiplied by 60000, so that the arithmetic stays integral.    *)
(* URLs and patterns are sequences of characters.                          *)
(***************************************************************************)
EXTENDS Integers, Sequences, FiniteSets, TLC

VARIABLES
  now,            \* Date.now()
  startupTime,    \* storage.local[STARTUP_TIME]; 0 when nothing is stored
  storage,        \* storage.sync[SITE_RULES]: the persisted rule sequence
  location,       \* window.location.href of the page context
  lastUrl,        \* DetectUrlChangeService.run: lastUrl
  rules,          \* RulesService.rules (in-memory cache)
  rulesLoaded,    \* RulesService.rulesLoaded
  limitRuleUpdateIntervalRunning,  \* RulesService.limitRuleUpdateIntervalRunning
  intervals,      \* active setInterval timers of the page context
  calls,          \* async invocations suspended at an await
  alert,          \* the notice page the context was redirected to, or NoAlert
  ev,             \* the step taken last (history)
  budget,         \* environment steps left: navigations, writes by other
                  \* contexts (edit), page loads
  acct,           \* accounting history: where the current run of counted
                  \* accounting calls began; in Spec, what another page
                  \* context's accounting wrote last
  arg,            \* the argument of the operation called last (history)
  tasks,          \* SchedulerService.tasks: the registered tasks, each named
                  \* by what a call of it does
  random,         \* the state of the generator behind Math.random()
  popupSettings   \* storage.sync[POPUP_SETTINGS]: <<>> when nothing is
                  \* stored, else the one settings record

vars == <<now, startupTime, storage, location, lastUrl, rules, rulesLoaded,
          limitRuleUpdateIntervalRunning, intervals, calls, alert, ev,
          budget, acct, arg, tasks, popupSettings, random>>

----------------------------------------------------------------------------
(* Program constants *)

FreshnessMs == 30000
MsPerMinute == 60000
MonitorIntervalMs == 5000

(* Bounds of the model *)

StartTime == 1000000
MaxElapsed == 70000
MaxRules == 2
MaxCalls == 2
MaxIntervals == 2
MaxNavigations == 1
MaxEdits == 1
MaxPageLoads == 1

Steps == {FreshnessMs, FreshnessMs + MonitorIntervalMs}

----------------------------------------------------------------------------
(* Rules *)

NoUrl == <<"null">>
Urls == { <<"y">>, <<"y", "s">>, <<"w">> }
FirstUrl == <<"y">>

BlockAction == [type |-> "block"]
AllowAction == [type |-> "allow"]

LimitAction(allowed, reset, delay, used, resetAt, usedAt) ==
  [type |-> "limit", allowedMinutes |-> allowed, resetAfterMinutes |-> reset,
   delayMinutes |-> delay, usedMs |-> used, lastResetAt |-> resetAt,
   lastUsedAt |-> usedAt]

SiteRule(id, title, pattern, matchType, action, enabled) ==
  [id |-> id, title |-> title, pattern |-> pattern, matchType |-> matchType,
   action |-> action, enabled |-> enabled]

(* The rules storage.sync can hold at StartTime: block, allow and limit
   rules made with the form (b, lastUsedAt 0, not yet accounted; f, accounted
   before), a limit rule with the field values of the delay-distractions
   preset (d, allowedMinutes 0 and resetAfterMinutes 0), and a rule with a
   regular expression that does not compile (e). *)
Templates ==
  [ a |-> SiteRule("a", "A", <<"s">>, "contains", BlockAction, TRUE),
    b |-> SiteRule("b", "B", <<"y">>, "startsWith",
                   LimitAction(1, 2, 0, 0, StartTime, 0), TRUE),
    c |-> SiteRule("c", "C", <<"y", "s">>, "equalTo", AllowAction, TRUE),
    d |-> SiteRule("d", "D", <<"y">>, "regex",
                   LimitAction(0, 0, 1, 0, StartTime, StartTime), TRUE),
    e |-> SiteRule("e", "E", <<"(">>, "regex", BlockAction, TRUE),
    f |-> SiteRule("f", "F", <<"s">>, "notEndsWith",
                   LimitAction(1, 1, 1, 0, StartTime, StartTime), TRUE) ]

RuleIds == DOMAIN Templates

RECURSIVE SeqsUpTo(_)
SeqsUpTo(n) ==
  IF n = 0 THEN { <<>> }
  ELSE LET shorter == SeqsUpTo(n - 1)
       IN shorter \cup
          { Append(s, Templates[i]) : s \in { t \in shorter : Len(t) = n - 1 },
                                      i \in RuleIds }

HasDistinctIds(rs) ==
  \A i, j \in 1..Len(rs) : rs[i].id = rs[j].id => i = j

InitStores == { rs \in SeqsUpTo(MaxRules) : Len(rs) > 0 /\ HasDistinctIds(rs) }

----------------------------------------------------------------------------
(* siteRulesMatcher *)

StartsWith(url, p) == Len(p) <= Len(url) /\ SubSeq(url, 1, Len(p)) = p

EndsWith(url, p) ==
  Len(p) <= Len(url) /\ SubSeq(url, Len(url) - Len(p) + 1, Len(url)) = p

Includes(url, p) ==
  \E i \in 0..(Len(url) - Len(p)) : SubSeq(url, i + 1, i + Len(p)) = p

(* new RegExp(pattern): a pattern with an unclosed group does not compile
   and the constructor throws; the patterns of the model are otherwise
   literal characters, which test() finds anywhere in the URL. *)
RegExpCompiles(p) == \A i \in 1..Len(p) : p[i] # "("

RegExpTest(url, p) == Includes(url, p)

MatcherThrows(matchType, p) ==
  matchType \in {"regex", "notRegex"} /\ ~RegExpCompiles(p)

siteRulesMatcherNotEndsWithAsNotStartsWith(matchType, url, p) ==
  CASE matchType = "equalTo"       -> url = p
    [] matchType = "startsWith"    -> StartsWith(url, p)
    [] matchType = "endsWith"      -> EndsWith(url, p)
    [] matchType = "contains"      -> Includes(url, p)
    [] matchType = "regex"         -> RegExpTest(url, p)
    [] matchType = "notEqualTo"    -> url # p
    [] matchType = "notStartsWith" -> ~StartsWith(url, p)
    [] matchType = "notEndsWith"   -> ~StartsWith(url, p)
    [] matchType = "notContains"   -> ~Includes(url, p)
    [] matchType = "notRegex"      -> ~RegExpTest(url, p)

siteRulesMatcher(matchType, url, p) ==
  CASE matchType = "equalTo"       -> url = p
    [] matchType = "startsWith"    -> StartsWith(url, p)
    [] matchType = "endsWith"      -> EndsWith(url, p)
    [] matchType = "contains"      -> Includes(url, p)
    [] matchType = "regex"         -> RegExpTest(url, p)
    [] matchType = "notEqualTo"    -> url # p
    [] matchType = "notStartsWith" -> ~StartsWith(url, p)
    [] matchType = "notEndsWith"   -> ~EndsWith(url, p)
    [] matchType = "notContains"   -> ~Includes(url, p)
    [] matchType = "notRegex"      -> ~RegExpTest(url, p)

ruleMatchWithUrl(rule, url) == siteRulesMatcher(rule.matchType, url, rule.pattern)

ruleMatchThrows(rule) == MatcherThrows(rule.matchType, rule.pattern)

(* this.rules.find(rule => rule.enabled && ruleMatchWithUrl(rule, url)):
   the index of the rule found, 0 when there is none, -1 when a matcher
   threw before a rule was found. *)
RECURSIVE FindFromAnyRule(_, _, _)
FindFromAnyRule(rs, url, i) ==
  IF i > Len(rs) THEN 0
  ELSE IF ruleMatchThrows(rs[i]) THEN -1
  ELSE IF ruleMatchWithUrl(rs[i], url) THEN i
  ELSE FindFromAnyRule(rs, url, i + 1)

RECURSIVE FindFrom(_, _, _)
FindFrom(rs, url, i) ==
  IF i > Len(rs) THEN 0
  ELSE IF ~rs[i].enabled THEN FindFrom(rs, url, i + 1)
  ELSE IF ruleMatchThrows(rs[i]) THEN -1
  ELSE IF ruleMatchWithUrl(rs[i], url) THEN i
  ELSE FindFrom(rs, url, i + 1)

FindMatched(rs, url) == FindFrom(rs, url, 1)

(* getRuleById: the index of the first rule with that id, 0 when none *)
RECURSIVE IndexOfId(_, _, _)
IndexOfId(rs, id, i) ==
  IF i > Len(rs) THEN 0
  ELSE IF rs[i].id = id THEN i
  ELSE IndexOfId(rs, id, i + 1)

getRuleById(rs, id) == IndexOfId(rs, id, 1)

----------------------------------------------------------------------------
(* updateLimitRuleUsage: the new limit state of a rule accounted at time t *)

UsageGapCountsStrict(a, t) == t - a.lastUsedAt < FreshnessMs

UsageGapCounts(a, t) == t - a.lastUsedAt <= FreshnessMs

ResetDueStrict(a, t) == t - a.lastResetAt > a.resetAfterMinutes * MsPerMinute

ResetDue(a, t) == t - a.lastResetAt >= a.resetAfterMinutes * MsPerMinute

updateLimitRuleUsageInSeconds(a, t) ==
  LET accrued == IF UsageGapCounts(a, t)
                 THEN a.usedMs + (t - a.lastUsedAt) * 60 ELSE a.usedMs
  IN [a EXCEPT !.usedMs = IF ResetDue(a, t) THEN 0 ELSE accrued,
               !.lastResetAt = IF ResetDue(a, t) THEN t ELSE @,
               !.lastUsedAt = t]

updateLimitRuleUsageResetFirst(a, t) ==
  LET base == IF ResetDue(a, t) THEN 0 ELSE a.usedMs
  IN [a EXCEPT !.usedMs = IF UsageGapCounts(a, t)
                          THEN base + (t - a.lastUsedAt) ELSE base,
               !.lastResetAt = IF ResetDue(a, t) THEN t ELSE @,
               !.lastUsedAt = t]

updateLimitRuleUsage(a, t) ==
  LET accrued == IF UsageGapCounts(a, t)
                 THEN a.usedMs + (t - a.lastUsedAt) ELSE a.usedMs
  IN [a EXCEPT !.usedMs = IF ResetDue(a, t) THEN 0 ELSE accrued,
               !.lastResetAt = IF ResetDue(a, t) THEN t ELSE @,
               !.lastUsedAt = t]

(* applyLimitRule: the delay gate, the quota gate and the allowedAt each
   passes to the notice page; uptimeMs is uptimeSec * 1000 *)
DelayGate(a, uptimeMs) == a.delayMinutes * MsPerMinute > uptimeMs

DelayAllowedAtNoUptime(a, t, uptimeMs) == t + a.delayMinutes * MsPerMinute

DelayAllowedAt(a, t, uptimeMs) == t + (a.delayMinutes * MsPerMinute - uptimeMs)

QuotaGateStrict(a) == a.usedMs > a.allowedMinutes * MsPerMinute

QuotaGate(a) == a.usedMs >= a.allowedMinutes * MsPerMinute

QuotaAllowedAt(a) == a.lastResetAt + a.resetAfterMinutes * MsPerMinute

(* saveRules: storage.sync.set writes the whole in-memory sequence over the
   stored one *)
saveRulesDropped(rs, stored) == stored

saveRules(rs, stored) == rs

(* background onMessage getUptime, in milliseconds *)
UptimeMsWithoutFallback(t) == t - startupTime

UptimeMs(t) == t - (IF startupTime = 0 THEN t ELSE startupTime)

(* redirectToAlertPage: the notice page's query parameters; allowedAt is
   left out when it is falsy *)
NoAlert == [type |-> "none"]
NoAllowedAt == 0 - 1

redirectToAlertPage(type, currentUrl, ruleTitle, allowedAt) ==
  [type |-> type, currentUrl |-> currentUrl, ruleTitle |-> ruleTitle,
   allowedAt |-> IF allowedAt = 0 \/ allowedAt = NoAllowedAt
                 THEN NoAllowedAt ELSE allowedAt]

----------------------------------------------------------------------------
(* Suspended invocations.  pc names the await an invocation is suspended at:
     "load"     applyRule, awaiting loadRules
     "save"     applyLimitRule, awaiting updateLimitRuleUsage (saveRules)
     "uptime"   applyLimitRule, awaiting the getUptime reply
     "tickLoad" the monitor callback, awaiting loadRules
   An invocation at "save" holds a reference to the rule object it matched:
   while live, that object is element ruleIdx of this.rules; once loadRules
   has replaced this.rules, the object is reachable from this invocation
   only and snap holds its value. *)

NoAction == [type |-> "none"]

Call(pc, url, ruleIdx, ruleId, title, live, snap, interval) ==
  [pc |-> pc, url |-> url, ruleIdx |-> ruleIdx, ruleId |-> ruleId,
   title |-> title, live |-> live, snap |-> snap, interval |-> interval]

RemoveAt(s, i) == SubSeq(s, 1, i - 1) \o SubSeq(s, i + 1, Len(s))

Detach(cs, old) ==
  [k \in 1..Len(cs) |->
     IF cs[k].live
     THEN [cs[k] EXCEPT !.live = FALSE, !.snap = old[cs[k].ruleIdx].action]
     ELSE cs[k]]

(* ev records the engine step taken last: which branch of applyRule,
   applyLimitRule or the monitor callback ran, and for which rule *)
Event(kind, id) == [kind |-> kind, id |-> id]
NoEvent == Event("-", "-")

NoAcct == [used |-> 0, at |-> 0]
NoArg == <<>>

(* detectUrlChangeService.run registers one task: an async function that
   returns normally *)
DetectorTask == "resolves"

Alive == alert = NoAlert

Init ==
  /\ now = StartTime
  /\ startupTime \in {0, StartTime - FreshnessMs}
  /\ storage \in InitStores
  /\ location = FirstUrl
  /\ lastUrl = NoUrl
  /\ rules = <<>>
  /\ rulesLoaded = FALSE
  /\ limitRuleUpdateIntervalRunning = FALSE
  /\ intervals = {}
  /\ calls = <<>>
  /\ alert = NoAlert
  /\ ev = NoEvent
  /\ budget = [nav |-> MaxNavigations, edit |-> MaxEdits, load |-> MaxPageLoads]
  /\ acct = NoAcct
  /\ arg = NoArg
  /\ tasks = <<DetectorTask>>
  /\ random = 0
  /\ popupSettings = <<>>

----------------------------------------------------------------------------
(* applyRule from the find on: rs is this.rules, url is window.location.href
   and rest the other suspended invocations.  Sets rules, storage, calls,
   alert and ev. *)

applyBlockRuleWithAllowedAt(rule, url) ==
  redirectToAlertPage("block", url, rule.title, now)

applyBlockRule(rule, url) ==
  redirectToAlertPage("block", url, rule.title, NoAllowedAt)

applyRule(rs, url, rest) ==
  LET idx == FindMatched(rs, url) IN
  IF idx = -1 THEN
    /\ rules' = rs /\ calls' = rest
    /\ ev' = Event("throw", "-")
    /\ UNCHANGED <<storage, alert>>
  ELSE IF idx = 0 THEN
    /\ rules' = rs /\ calls' = rest
    /\ ev' = Event("nomatch", "-")
    /\ UNCHANGED <<storage, alert>>
  ELSE IF rs[idx].action.type = "allow" THEN
    /\ rules' = rs /\ calls' = rest
    /\ ev' = Event("allow", rs[idx].id)
    /\ UNCHANGED <<storage, alert>>
  ELSE IF rs[idx].action.type = "block" THEN
    /\ rules' = rs /\ calls' = rest
    /\ alert' = applyBlockRule(rs[idx], url)
    /\ ev' = Event("block", rs[idx].id)
    /\ UNCHANGED storage
  ELSE
    \* applyLimitRule up to the await: updateLimitRuleUsage changes the
    \* matched rule in place and saveRules writes this.rules
    LET updated == [rs EXCEPT ![idx].action = updateLimitRuleUsage(@, now)] IN
    /\ rules' = updated
    /\ storage' = saveRules(updated, storage)
    /\ calls' = Append(rest, Call("save", url, idx, rs[idx].id, rs[idx].title,
                                  TRUE, updated[idx].action, 0))
    /\ ev' = Event("navUpdate", rs[idx].id)
    /\ UNCHANGED alert

(* SchedulerService tick running the detector's task, and the urlChanged
   listener it dispatches to: applyRule up to its first await *)
DetectTick ==
  /\ Alive
  /\ location # lastUrl
  /\ Len(calls) < MaxCalls
  /\ lastUrl' = location
  /\ IF ~rulesLoaded
     THEN /\ rulesLoaded' = TRUE
          /\ calls' = Append(calls, Call("load", location, 0, "-", "-",
                                         FALSE, NoAction, 0))
          /\ ev' = NoEvent
          /\ UNCHANGED <<rules, storage, alert>>
     ELSE /\ applyRule(rules, location, calls)
          /\ UNCHANGED rulesLoaded
  /\ UNCHANGED <<now, startupTime, acct, arg, tasks, popupSettings, random,
                 location, limitRuleUpdateIntervalRunning, intervals, budget>>

(* loadRules resolves inside applyRule: the cache is replaced by the stored
   sequence and applyRule goes on with the address the page has now *)
LoadResolve(i) ==
  /\ Alive
  /\ i \in 1..Len(calls)
  /\ calls[i].pc = "load"
  /\ applyRule(storage, location, Detach(RemoveAt(calls, i), rules))
  /\ UNCHANGED <<now, startupTime, acct, arg, tasks, popupSettings, random,
                 location, lastUrl, rulesLoaded,
                 limitRuleUpdateIntervalRunning, intervals, budget>>

(* saveRules resolves inside applyLimitRule: the limit fields of the rule
   object are read and the getUptime request is sent *)
SaveResolve(i) ==
  /\ Alive
  /\ i \in 1..Len(calls)
  /\ calls[i].pc = "save"
  /\ LET c == calls[i]
         a == IF c.live THEN rules[c.ruleIdx].action ELSE c.snap
     IN calls' = [calls EXCEPT ![i] =
                    [c EXCEPT !.pc = "uptime", !.live = FALSE, !.snap = a]]
  /\ ev' = NoEvent
  /\ UNCHANGED <<now, startupTime, acct, arg, tasks, popupSettings, random,
                 storage, location, lastUrl, rules, rulesLoaded,
                 limitRuleUpdateIntervalRunning, intervals, alert, budget>>

(* The getUptime reply arrives inside applyLimitRule: delay gate, quota gate,
   or grant with the start of the monitor *)
MaxIntervalId == IF intervals = {} THEN 0
                 ELSE CHOOSE n \in { iv.id : iv \in intervals } :
                        \A iv \in intervals : iv.id <= n

StartMonitorUnguarded(c) ==
  /\ limitRuleUpdateIntervalRunning' = TRUE
  /\ intervals' = intervals \cup
       { [id |-> MaxIntervalId + 1, ruleId |-> c.ruleId, url |-> c.url,
          title |-> c.title, nextFire |-> now + MonitorIntervalMs] }

StartMonitor(c) ==
  IF ~limitRuleUpdateIntervalRunning
  THEN /\ limitRuleUpdateIntervalRunning' = TRUE
       /\ intervals' = intervals \cup
            { [id |-> MaxIntervalId + 1, ruleId |-> c.ruleId, url |-> c.url,
               title |-> c.title, nextFire |-> now + MonitorIntervalMs] }
  ELSE UNCHANGED <<limitRuleUpdateIntervalRunning, intervals>>

UptimeResolve(i) ==
  /\ Alive
  /\ i \in 1..Len(calls)
  /\ calls[i].pc = "uptime"
  /\ Cardinality(intervals) < MaxIntervals
  /\ LET c == calls[i]
         a == c.snap
         uptimeMs == UptimeMs(now)
     IN /\ calls' = RemoveAt(calls, i)
        /\ IF DelayGate(a, uptimeMs) THEN
             /\ alert' = redirectToAlertPage("limit", c.url, c.title,
                                             DelayAllowedAt(a, now, uptimeMs))
             /\ ev' = Event("delayRedirect", c.ruleId)
             /\ UNCHANGED <<limitRuleUpdateIntervalRunning, intervals>>
           ELSE IF QuotaGate(a) THEN
             /\ alert' = redirectToAlertPage("limit", c.url, c.title,
                                             QuotaAllowedAt(a))
             /\ ev' = Event("quotaRedirect", c.ruleId)
             /\ UNCHANGED <<limitRuleUpdateIntervalRunning, intervals>>
           ELSE
             /\ StartMonitor(c)
             /\ ev' = Event(IF limitRuleUpdateIntervalRunning
                            THEN "grantRunning" ELSE "grant", c.ruleId)
             /\ UNCHANGED alert
  /\ UNCHANGED <<now, startupTime, acct, arg, tasks, popupSettings, random,
                 storage, location, lastUrl, rules, rulesLoaded, budget>>

(* The monitor's timer fires: the callback calls loadRules and suspends *)
MonitorTick(iv) ==
  /\ Alive
  /\ iv \in intervals
  /\ now >= iv.nextFire
  /\ Len(calls) < MaxCalls
  /\ rulesLoaded' = TRUE
  /\ intervals' = (intervals \ {iv}) \cup
                    { [iv EXCEPT !.nextFire = now + MonitorIntervalMs] }
  /\ calls' = Append(calls, Call("tickLoad", iv.url, 0, iv.ruleId, iv.title,
                                 FALSE, NoAction, iv.id))
  /\ ev' = NoEvent
  /\ UNCHANGED <<now, startupTime, acct, arg, tasks, popupSettings, random,
                 storage, location, lastUrl, rules,
                 limitRuleUpdateIntervalRunning, alert, budget>>

clearIntervalNever(id) == intervals

clearInterval(id) == { iv \in intervals : iv.id # id }

(* loadRules resolves inside the monitor callback: the rest of the callback *)
TickLoadResolve(i) ==
  /\ Alive
  /\ i \in 1..Len(calls)
  /\ calls[i].pc = "tickLoad"
  /\ LET c == calls[i]
         rest == Detach(RemoveAt(calls, i), rules)
         k == getRuleById(storage, c.ruleId)
     IN /\ calls' = rest
        /\ IF k = 0 \/ ~storage[k].enabled THEN
             /\ intervals' = clearInterval(c.interval)
             /\ rules' = storage
             /\ ev' = Event("tickStop", c.ruleId)
             /\ UNCHANGED <<storage, alert>>
           ELSE IF ruleMatchThrows(storage[k]) THEN
             /\ rules' = storage
             /\ ev' = Event("tickThrow", c.ruleId)
             /\ UNCHANGED <<storage, alert, intervals>>
           ELSE IF \/ ~ruleMatchWithUrl(storage[k], c.url)
                   \/ storage[k].action.type # "limit" THEN
             /\ intervals' = clearInterval(c.interval)
             /\ rules' = storage
             /\ ev' = Event("tickStop", c.ruleId)
             /\ UNCHANGED <<storage, alert>>
           ELSE IF QuotaGate(storage[k].action) THEN
             /\ intervals' = clearInterval(c.interval)
             /\ rules' = storage
             /\ alert' = redirectToAlertPage("limit", c.url, c.title,
                                             QuotaAllowedAt(storage[k].action))
             /\ ev' = Event("tickRedirect", c.ruleId)
             /\ UNCHANGED storage
           ELSE
             LET updated == [storage EXCEPT
                               ![k].action = updateLimitRuleUsage(@, now)]
             IN /\ rules' = updated
                /\ storage' = saveRules(updated, storage)
                /\ ev' = Event("tickUpdate", c.ruleId)
                /\ UNCHANGED <<alert, intervals>>
  /\ UNCHANGED <<now, startupTime, acct, arg, tasks, popupSettings, random,
                 location, lastUrl, rulesLoaded,
                 limitRuleUpdateIntervalRunning, budget>>

----------------------------------------------------------------------------
(* The environment of the page context *)

(* client-side navigation of the page *)
Navigate(u) ==
  /\ Alive
  /\ u \in Urls
  /\ u # location
  /\ budget.nav > 0
  /\ budget' = [budget EXCEPT !.nav = @ - 1]
  /\ location' = u
  /\ ev' = NoEvent
  /\ UNCHANGED <<now, startupTime, acct, arg, tasks, popupSettings, random,
                 storage, lastUrl, rules, rulesLoaded,
                 limitRuleUpdateIntervalRunning, intervals, calls, alert>>

(* time passes *)
Advance(d) ==
  /\ d \in Steps
  /\ now + d <= StartTime + MaxElapsed
  /\ now' = now + d
  /\ ev' = NoEvent
  /\ UNCHANGED <<startupTime, acct, arg, tasks, popupSettings, random,
                 storage, location, lastUrl, rules, rulesLoaded,
                 limitRuleUpdateIntervalRunning, intervals, calls, alert,
                 budget>>

(* the options page, a context of its own with a freshly loaded cache,
   toggles a rule: toggleRule, updateRule, saveRules *)
OptionsToggle(k) ==
  /\ k \in 1..Len(storage)
  /\ budget.edit > 0
  /\ budget' = [budget EXCEPT !.edit = @ - 1]
  /\ storage' = [storage EXCEPT ![k].enabled = ~@]
  /\ ev' = NoEvent
  /\ UNCHANGED <<now, startupTime, acct, arg, tasks, popupSettings, random,
                 location, lastUrl, rules, rulesLoaded,
                 limitRuleUpdateIntervalRunning, intervals, calls, alert>>

(* the options page deletes a rule: deleteRule, saveRules *)
OptionsDelete(k) ==
  /\ k \in 1..Len(storage)
  /\ budget.edit > 0
  /\ budget' = [budget EXCEPT !.edit = @ - 1]
  /\ storage' = RemoveAt(storage, k)
  /\ ev' = NoEvent
  /\ UNCHANGED <<now, startupTime, acct, arg, tasks, popupSettings, random,
                 location, lastUrl, rules, rulesLoaded,
                 limitRuleUpdateIntervalRunning, intervals, calls, alert>>

(* the options page saves the rule form while editing rule k (handleSaveRule
   with editingRuleId set): updateRule replaces title, pattern, matchType and
   action by what getFormData read.  The form was filled from the rule; the
   user turns the limit rule into an Allow rule and either keeps the pattern
   or types a regular expression, which getFormData does not compile. *)
EditForms(rule) ==
  { [title |-> rule.title, pattern |-> rule.pattern,
     matchType |-> rule.matchType, action |-> AllowAction],
    [title |-> rule.title, pattern |-> <<"(">>,
     matchType |-> "regex", action |-> AllowAction] }

OptionsSave(k) ==
  /\ k \in 1..Len(storage)
  /\ storage[k].action.type = "limit"
  /\ budget.edit > 0
  /\ budget' = [budget EXCEPT !.edit = @ - 1]
  /\ \E f \in EditForms(storage[k]) :
       storage' = [storage EXCEPT ![k] =
                     [@ EXCEPT !.title = f.title, !.pattern = f.pattern,
                               !.matchType = f.matchType, !.action = f.action]]
  /\ ev' = NoEvent
  /\ UNCHANGED <<now, startupTime, acct, arg, tasks, popupSettings, random,
                 location, lastUrl, rules, rulesLoaded,
                 limitRuleUpdateIntervalRunning, intervals, calls, alert>>

(* the monitor of another page context ticks on rule k: that context loads
   the stored sequence, accounts the rule and saves the sequence *)
OtherTabAccount(k) ==
  /\ k \in 1..Len(storage)
  /\ storage[k].enabled
  /\ storage[k].action.type = "limit"
  /\ ~QuotaGate(storage[k].action)
  /\ budget.edit > 0
  /\ budget' = [budget EXCEPT !.edit = @ - 1]
  /\ storage' = [storage EXCEPT ![k].action = updateLimitRuleUsage(@, now)]
  /\ acct' = [used |-> storage'[k].action.usedMs, at |-> now]
  /\ ev' = NoEvent
  /\ UNCHANGED <<now, startupTime, arg, tasks, popupSettings, random, location,
                 lastUrl, rules, rulesLoaded, limitRuleUpdateIntervalRunning,
                 intervals, calls, alert>>

(* the notice page sends the tab back to the address it was given (its link,
   or its countdown reaching allowedAt): a new page context with a new
   RulesService and detector *)
PageLoad ==
  /\ ~Alive
  /\ budget.load > 0
  /\ budget' = [budget EXCEPT !.load = @ - 1]
  /\ location' = alert.currentUrl
  /\ lastUrl' = NoUrl
  /\ rules' = <<>>
  /\ rulesLoaded' = FALSE
  /\ limitRuleUpdateIntervalRunning' = FALSE
  /\ intervals' = {}
  /\ calls' = <<>>
  /\ alert' = NoAlert
  /\ ev' = NoEvent
  /\ UNCHANGED <<now, startupTime, acct, arg, tasks, popupSettings, random,
                 storage>>

Next ==
  \/ DetectTick
  \/ \E i \in 1..MaxCalls : LoadResolve(i)
  \/ \E i \in 1..MaxCalls : SaveResolve(i)
  \/ \E i \in 1..MaxCalls : UptimeResolve(i)
  \/ \E iv \in intervals : MonitorTick(iv)
  \/ \E i \in 1..MaxCalls : TickLoadResolve(i)
  \/ \E u \in Urls : Navigate(u)
  \/ \E d \in Steps : Advance(d)
  \/ \E k \in 1..MaxRules : OptionsToggle(k)
  \/ \E k \in 1..MaxRules : OptionsDelete(k)
  \/ \E k \in 1..MaxRules : OptionsSave(k)
  \/ \E k \in 1..MaxRules : OtherTabAccount(k)
  \/ PageLoad

Spec == Init /\ [][Next]_vars

----------------------------------------------------------------------------
(* updateLimitRuleUsage on its own: one stored limit rule in any usage state
   a session can have left it in, accounted again and again as time passes *)

UsageRules ==
  { SiteRule("u", "U", <<"y">>, "contains",
             LimitAction(allowed, reset, 0, used, StartTime - back, usedAt),
             TRUE) :
      allowed \in {0, 1}, reset \in {0, 1, 2},
      used \in {0, MonitorIntervalMs},
      back \in {0, FreshnessMs},
      usedAt \in {0, StartTime - FreshnessMs - MonitorIntervalMs, StartTime} }

InitUsage ==
  /\ now = StartTime
  /\ startupTime = 0
  /\ storage \in { <<r>> : r \in UsageRules }
  /\ location = FirstUrl
  /\ lastUrl = FirstUrl
  /\ rules = storage
  /\ rulesLoaded = TRUE
  /\ limitRuleUpdateIntervalRunning = FALSE
  /\ intervals = {}
  /\ calls = <<>>
  /\ alert = NoAlert
  /\ ev = NoEvent
  /\ budget = [nav |-> 0, edit |-> 0, load |-> 0]
  /\ acct = [used |-> storage[1].action.usedMs, at |-> storage[1].action.lastUsedAt]
  /\ arg = NoArg
  /\ tasks = <<DetectorTask>>
  /\ random = 0
  /\ popupSettings = <<>>

(* one call of updateLimitRuleUsage on the rule, with its saveRules *)
AccountUsage ==
  /\ LET a == rules[1].action
         updated == [rules EXCEPT ![1].action = updateLimitRuleUsage(@, now)]
     IN /\ rules' = updated
        /\ storage' = saveRules(updated, storage)
        /\ acct' = IF UsageGapCounts(a, now) /\ ~ResetDue(a, now)
                   THEN acct
                   ELSE [used |-> updated[1].action.usedMs, at |-> now]
  /\ ev' = Event("update", rules[1].id)
  /\ arg' = rules[1].action
  /\ UNCHANGED <<now, startupTime, tasks, popupSettings, random, location,
                 lastUrl, rulesLoaded, limitRuleUpdateIntervalRunning,
                 intervals, calls, alert, budget>>

NextUsage ==
  \/ AccountUsage
  \/ \E d \in Steps : Advance(d)

UsageSpec == InitUsage /\ [][NextUsage]_vars

----------------------------------------------------------------------------
(* A page context opened at StartTime, one hour after browser startup, on a
   limit rule of 10 minutes per hour that is close to its quota: 9.5 minutes
   or 9 minutes 59 seconds used, last accounted 1 s or 30 s ago *)

HourMs == 60 * MsPerMinute

ScenarioRules ==
  { SiteRule("s", "S", <<"y">>, "contains",
             LimitAction(10, 60, 0, used, StartTime - 1000, StartTime - back),
             TRUE) :
      used \in {570000, 599000}, back \in {1000, FreshnessMs} }

InitScenario ==
  /\ now = StartTime
  /\ startupTime = StartTime - HourMs
  /\ storage \in { <<r>> : r \in ScenarioRules }
  /\ location = FirstUrl
  /\ lastUrl = NoUrl
  /\ rules = <<>>
  /\ rulesLoaded = FALSE
  /\ limitRuleUpdateIntervalRunning = FALSE
  /\ intervals = {}
  /\ calls = <<>>
  /\ alert = NoAlert
  /\ ev = NoEvent
  /\ budget = [nav |-> MaxNavigations, edit |-> 0, load |-> MaxPageLoads]
  /\ acct = [used |-> storage[1].action.usedMs, at |-> storage[1].action.lastUsedAt]
  /\ arg = NoArg
  /\ tasks = <<DetectorTask>>
  /\ random = 0
  /\ popupSettings = <<>>

NextScenario ==
  \/ DetectTick
  \/ \E i \in 1..MaxCalls : LoadResolve(i)
  \/ \E i \in 1..MaxCalls : SaveResolve(i)
  \/ \E i \in 1..MaxCalls : UptimeResolve(i)
  \/ \E iv \in intervals : MonitorTick(iv)
  \/ \E i \in 1..MaxCalls : TickLoadResolve(i)
  \/ \E u \in Urls : Navigate(u)
  \/ \E d \in Steps : Advance(d)
  \/ PageLoad

ScenarioSpec == InitScenario /\ [][NextScenario]_vars

----------------------------------------------------------------------------
(* The rule store on the options page: the form, handleSaveRule (addRule or
   updateRule) and reorderRules, each with its saveRules and the reload of
   the list that follows *)

MaxStoreOps == 2

(* what the rule form holds when it is read: the trimmed texts, the selected
   match type and action and the parsed numbers *)
FormTexts ==
  { [title |-> t, pattern |-> p, matchType |-> m] :
      t \in {"", "T"}, p \in { <<>>, <<"y">>, <<"(">> },
      m \in {"contains", "regex"} }

FormInputs ==
  { [title |-> x.title, pattern |-> x.pattern, matchType |-> x.matchType,
     actionType |-> ty, allowed |-> 0, reset |-> 0, delay |-> 0] :
      x \in FormTexts, ty \in {"block", "allow"} }
  \cup
  { [title |-> x.title, pattern |-> x.pattern, matchType |-> x.matchType,
     actionType |-> "limit", allowed |-> al, reset |-> re, delay |-> 0] :
      x \in FormTexts, al \in {0, 1}, re \in {0, 1} }

NoFormData == [title |-> "null"]

(* FormService.getFormData: NoFormData when the form is rejected *)
getFormData(f, t) ==
  IF f.title = "" THEN NoFormData
  ELSE IF f.pattern = <<>> THEN NoFormData
  ELSE IF f.actionType = "limit" /\ f.allowed <= 0 THEN NoFormData
  ELSE IF f.actionType = "limit" /\ f.reset <= 0 THEN NoFormData
  ELSE [title |-> f.title, pattern |-> f.pattern, matchType |-> f.matchType,
        action |-> IF f.actionType = "limit"
                   THEN LimitAction(f.allowed, f.reset, f.delay, 0, t, 0)
                   ELSE [type |-> f.actionType]]

(* generateId: an id no stored rule has *)
(* Number.prototype.toString(36) of a non-negative integer *)
Digits36 ==
  <<"0", "1", "2", "3", "4", "5", "6", "7", "8", "9", "a", "b", "c", "d", "e",
    "f", "g", "h", "i", "j", "k", "l", "m", "n", "o", "p", "q", "r", "s", "t",
    "u", "v", "w", "x", "y", "z">>

RECURSIVE toString36(_)
toString36(n) ==
  IF n < 36 THEN Digits36[n + 1]
  ELSE toString36(n \div 36) \o Digits36[(n % 36) + 1]

(* Math.random(): a generator whose successive draws differ until its period
   is over; the period is longer than the draws of any run. *)
RandomPeriod == 4

NextRandom(r) == (r + 1) % RandomPeriod

(* Math.random().toString(36).substr(2): the digits of the draw after "0.";
   the draw 0 prints as "0" and leaves the empty string *)
RandomString(r) == IF r = 0 THEN "" ELSE toString36(r)

generateIdWithoutTime(t, r) == RandomString(r)

generateId(t, r) == toString36(t) \o RandomString(r)

IdsOf(rs) == { rs[k].id : k \in 1..Len(rs) }

(* reorderRules: the rules named by newOrder, in that order, then every rule
   of the store that the new sequence does not hold yet *)
RECURSIVE PushNamed(_, _, _)
PushNamed(rs, newOrder, j) ==
  IF j > Len(newOrder) THEN <<>>
  ELSE LET k == getRuleById(rs, newOrder[j])
       IN (IF k > 0 THEN <<rs[k]>> ELSE <<>>) \o PushNamed(rs, newOrder, j + 1)

RECURSIVE PushMissing(_, _, _)
PushMissing(reordered, rs, i) ==
  IF i > Len(rs) THEN reordered
  ELSE IF getRuleById(reordered, rs[i].id) > 0
       THEN PushMissing(reordered, rs, i + 1)
       ELSE PushMissing(Append(reordered, rs[i]), rs, i + 1)

reorderRulesDroppingMissing(rs, newOrder) == PushNamed(rs, newOrder, 1)

reorderRules(rs, newOrder) == PushMissing(PushNamed(rs, newOrder, 1), rs, 1)

(* the id sequences handed to reorderRules: ids of stored rules and an id no
   rule has, in any order, possibly incomplete or repeating *)
ReorderIds == {"a", "b", "c", "x"}

IdSeqs ==
  UNION { [1..n -> ReorderIds] : n \in 0..3 }

InitStore ==
  /\ now = StartTime
  /\ startupTime = 0
  /\ storage \in { SubSeq(<<Templates.a, Templates.b, Templates.c>>, 1, n) :
                     n \in 0..3 }
  /\ location = FirstUrl
  /\ lastUrl = NoUrl
  /\ rules = storage
  /\ rulesLoaded = TRUE
  /\ limitRuleUpdateIntervalRunning = FALSE
  /\ intervals = {}
  /\ calls = <<>>
  /\ alert = NoAlert
  /\ ev = NoEvent
  /\ budget = [nav |-> 0, edit |-> MaxStoreOps, load |-> 0]
  /\ acct = NoAcct
  /\ arg = NoArg
  /\ tasks = <<DetectorTask>>
  /\ random = 0
  /\ popupSettings = <<>>

(* handleSaveRule with no rule being edited: getFormData, addRule, saveRules,
   loadAndRenderRules *)
HandleSaveRuleAdd(f) ==
  /\ budget.edit > 0
  /\ budget' = [budget EXCEPT !.edit = @ - 1]
  /\ arg' = f
  /\ LET data == getFormData(f, now)
     IN IF data = NoFormData
        THEN /\ ev' = Event("rejected", "-")
             /\ UNCHANGED <<rules, storage>>
        ELSE LET id == generateId(now, random)
                 added == Append(rules, SiteRule(id, data.title, data.pattern,
                                                 data.matchType, data.action,
                                                 TRUE))
             IN /\ storage' = saveRules(added, storage)
                /\ rules' = storage'
                /\ ev' = Event("add", id)
  /\ random' = IF getFormData(f, now) = NoFormData THEN random
               ELSE NextRandom(random)
  /\ UNCHANGED <<now, startupTime, acct, tasks, popupSettings, location,
                 lastUrl, rulesLoaded, limitRuleUpdateIntervalRunning,
                 intervals, calls, alert>>

(* handleSaveRule while rule k is being edited: getFormData, updateRule,
   saveRules, loadAndRenderRules *)
HandleSaveRuleEdit(k, f) ==
  /\ k \in 1..Len(rules)
  /\ budget.edit > 0
  /\ budget' = [budget EXCEPT !.edit = @ - 1]
  /\ arg' = f
  /\ LET data == getFormData(f, now)
         index == getRuleById(rules, rules[k].id)
     IN IF data = NoFormData
        THEN /\ ev' = Event("rejected", "-")
             /\ UNCHANGED <<rules, storage>>
        ELSE LET updated == [rules EXCEPT ![index] =
                               [@ EXCEPT !.title = data.title,
                                         !.pattern = data.pattern,
                                         !.matchType = data.matchType,
                                         !.action = data.action]]
             IN /\ storage' = saveRules(updated, storage)
                /\ rules' = storage'
                /\ ev' = Event("update", rules[k].id)
  /\ UNCHANGED <<now, startupTime, acct, tasks, popupSettings, random,
                 location, lastUrl, rulesLoaded,
                 limitRuleUpdateIntervalRunning, intervals, calls, alert>>

(* handleRuleReorder: reorderRules with its saveRules *)
HandleRuleReorder(newOrder) ==
  /\ budget.edit > 0
  /\ budget' = [budget EXCEPT !.edit = @ - 1]
  /\ arg' = newOrder
  /\ rules' = reorderRules(rules, newOrder)
  /\ storage' = saveRules(rules', storage)
  /\ ev' = Event("reorder", "-")
  /\ UNCHANGED <<now, startupTime, acct, tasks, popupSettings, random,
                 location, lastUrl, rulesLoaded,
                 limitRuleUpdateIntervalRunning, intervals, calls, alert>>

NextStore ==
  \/ \E f \in FormInputs : HandleSaveRuleAdd(f)
  \/ \E k \in 1..Len(rules), f \in FormInputs : HandleSaveRuleEdit(k, f)
  \/ \E newOrder \in IdSeqs : HandleRuleReorder(newOrder)

StoreSpec == InitStore /\ [][NextStore]_vars

----------------------------------------------------------------------------
(* The rule store's operations, each split at its await of the storage API.
   The synchronous part of an operation runs when it is called: it changes
   this.rules and hands storage.sync.set the sequence as it is then, or asks
   storage.sync.get for the stored value. The operation resolves when the
   storage call settles; storage calls of one context settle in the order
   they were issued. *)

MaxOps == 3
MaxPending == 2

(* a rule added in an earlier session, when the generator gave the draw 1 *)
EarlierRule == [Templates.a EXCEPT !.id = generateId(StartTime - 1000, 1)]

OpsStores ==
  { SubSeq(<<EarlierRule, Templates.c, Templates.b>>, 1, n) : n \in 0..3 }

(* the rule data passed to addRule *)
AddInputs ==
  { [title |-> "t", pattern |-> <<"s">>, matchType |-> "contains",
     action |-> BlockAction, enabled |-> TRUE],
    [title |-> "u", pattern |-> <<"y">>, matchType |-> "startsWith",
     action |-> AllowAction, enabled |-> FALSE] }

(* the partial rules passed to updateRule *)
UpdateInputs == { [title |-> "t2"], [enabled |-> FALSE, title |-> "u2"] }

(* { ...this.rules[index], ...updates } *)
SpreadUpdates(rule, updates) ==
  [f \in DOMAIN rule |-> IF f \in DOMAIN updates THEN updates[f] ELSE rule[f]]

(* ids the callers pass: the ids of the cache and one no rule has *)
OpIds == IdsOf(rules) \cup {"x"}

(* this.rules.filter(rule => rule.id !== id) *)
FilterOutFromId(rs, id) ==
  IF getRuleById(rs, id) = 0 THEN rs ELSE SubSeq(rs, 1, getRuleById(rs, id) - 1)

FilterOutId(rs, id) == SelectSeq(rs, LAMBDA r : r.id # id)

(* the orders passed to reorderRules: the cache reversed, its last id alone,
   and an order naming an id no rule has *)
Reverse(q) == [k \in 1..Len(q) |-> q[Len(q) + 1 - k]]

OpOrders ==
  LET ids == [k \in 1..Len(rules) |-> rules[k].id]
  IN { Reverse(ids), IF ids = <<>> THEN ids ELSE <<ids[Len(ids)]>>,
       <<"x">> \o ids }

(* result[SITE_RULES] || []: the stored sequence, and the empty sequence when
   the key is absent (an absent key and a stored empty sequence are both
   the empty sequence here) *)
storedOrEmptyAlwaysEmpty(stored) == <<>>

storedOrEmpty(stored) == stored

(* a storage call that has not settled: pc is "set" or "get", op the
   operation awaiting it, id the rule id the operation is about, snap the
   sequence handed to storage.sync.set, changed whether the operation
   changed this.rules, result what the operation returns; after is history:
   what the operation that had resolved just before a loadRules call did,
   when no storage call was in flight at that call *)
Pending(pc, op, id, snap, changed, result, after) ==
  [pc |-> pc, op |-> op, id |-> id, snap |-> snap, changed |-> changed,
   result |-> result, after |-> after]

(* what the step of an operation did: outcome is "pending" when the call is
   awaiting storage, "none" when the operation returned without a storage
   call, and else how the storage call settled; after is the history the
   settled storage call carried *)
OpArg(op, id, snap, outcome, after) ==
  [op |-> op, id |-> id, snap |-> snap, outcome |-> outcome, after |-> after]

InitOps ==
  /\ now = StartTime
  /\ startupTime = 0
  /\ storage \in OpsStores
  /\ location = FirstUrl
  /\ lastUrl = NoUrl
  /\ rules = storage
  /\ rulesLoaded = TRUE
  /\ limitRuleUpdateIntervalRunning = FALSE
  /\ intervals = {}
  /\ calls = <<>>
  /\ alert = NoAlert
  /\ ev = NoEvent
  /\ budget = [nav |-> 0, edit |-> MaxOps, load |-> 0]
  /\ acct = NoAcct
  /\ arg = NoArg
  /\ tasks = <<>>
  /\ random = 0
  /\ popupSettings = <<>>

(* the operation's synchronous part up to await this.saveRules(), with
   saveRules up to its await of storage.sync.set *)
CallSet(op, id, newRules, result) ==
  /\ budget.edit > 0
  /\ Len(calls) < MaxPending
  /\ budget' = [budget EXCEPT !.edit = @ - 1]
  /\ rules' = newRules
  /\ calls' = Append(calls, Pending("set", op, id, newRules, newRules # rules,
                                   result, NoArg))
  /\ ev' = Event("call", id)
  /\ arg' = OpArg(op, id, newRules, "pending", NoArg)
  /\ UNCHANGED <<now, startupTime, acct, tasks, popupSettings, storage,
                 location, lastUrl, rulesLoaded,
                 limitRuleUpdateIntervalRunning, intervals, alert>>

(* an operation that returns without a storage call *)
ReturnAtOnce(op, id, result) ==
  /\ budget.edit > 0
  /\ budget' = [budget EXCEPT !.edit = @ - 1]
  /\ ev' = Event(result, id)
  /\ arg' = OpArg(op, id, rules, "none", NoArg)
  /\ UNCHANGED <<now, startupTime, acct, tasks, popupSettings, random,
                 storage, location, lastUrl, rules, rulesLoaded,
                 limitRuleUpdateIntervalRunning, intervals, calls, alert>>

addRule(ruleData) ==
  LET id == generateId(now, random)
      newRule == SiteRule(id, ruleData.title, ruleData.pattern,
                          ruleData.matchType, ruleData.action,
                          ruleData.enabled)
  IN /\ CallSet("addRule", id, Append(rules, newRule), "newRule")
     /\ random' = NextRandom(random)

updateRule(id, updates) ==
  LET index == getRuleById(rules, id)
  IN IF index = 0
     THEN ReturnAtOnce("updateRule", id, "null")
     ELSE /\ CallSet("updateRule", id,
                     [rules EXCEPT ![index] = SpreadUpdates(@, updates)],
                     "rule")
          /\ UNCHANGED random

toggleRule(id) ==
  LET index == getRuleById(rules, id)
  IN IF index = 0
     THEN ReturnAtOnce("toggleRule", id, "null")
     ELSE /\ CallSet("toggleRule", id,
                     [rules EXCEPT ![index] =
                        SpreadUpdates(@, [enabled |-> ~rules[index].enabled])],
                     "rule")
          /\ UNCHANGED random

deleteRule(id) ==
  LET filtered == FilterOutId(rules, id)
  IN IF Len(filtered) = Len(rules)
     THEN ReturnAtOnce("deleteRule", id, "false")
     ELSE /\ CallSet("deleteRule", id, filtered, "true")
          /\ UNCHANGED random

reorderRulesCall(newOrder) ==
  /\ CallSet("reorderRules", "-", reorderRules(rules, newOrder), "void")
  /\ UNCHANGED random

saveRulesCall ==
  /\ CallSet("saveRules", "-", rules, "void")
  /\ UNCHANGED random

(* loadRules up to its await of storage.sync.get *)
loadRulesCall ==
  /\ budget.edit > 0
  /\ Len(calls) < MaxPending
  /\ budget' = [budget EXCEPT !.edit = @ - 1]
  /\ rulesLoaded' = TRUE
  /\ calls' = Append(calls, Pending("get", "loadRules", "-", <<>>, FALSE,
                                   "rules",
                                   IF calls = <<>> THEN arg ELSE NoArg))
  /\ ev' = Event("call", "-")
  /\ arg' = OpArg("loadRules", "-", <<>>, "pending", NoArg)
  /\ UNCHANGED <<now, startupTime, acct, tasks, popupSettings, random,
                 storage, location, lastUrl, rules,
                 limitRuleUpdateIntervalRunning, intervals, alert>>

(* storage.sync.set fulfils: the value is stored, saveRules returns and the
   operation awaiting it resolves with its result *)
SetFulfils ==
  /\ calls # <<>>
  /\ Head(calls).pc = "set"
  /\ storage' = saveRules(Head(calls).snap, storage)
  /\ calls' = Tail(calls)
  /\ ev' = Event(Head(calls).result, Head(calls).id)
  /\ arg' = OpArg(Head(calls).op, Head(calls).id, Head(calls).snap, "written",
                  NoArg)
  /\ UNCHANGED <<now, startupTime, acct, tasks, popupSettings, random,
                 location, lastUrl, rules, rulesLoaded,
                 limitRuleUpdateIntervalRunning, intervals, alert, budget>>

(* storage.sync.set rejects: saveRules catches, logs and returns, and the
   operation awaiting it resolves with its result *)
SetRejects ==
  /\ calls # <<>>
  /\ Head(calls).pc = "set"
  /\ calls' = Tail(calls)
  /\ ev' = Event(Head(calls).result, Head(calls).id)
  /\ arg' = OpArg(Head(calls).op, Head(calls).id, Head(calls).snap,
                  "writeFailed", NoArg)
  /\ UNCHANGED <<now, startupTime, acct, tasks, popupSettings, random,
                 storage, location, lastUrl, rules, rulesLoaded,
                 limitRuleUpdateIntervalRunning, intervals, alert, budget>>

(* storage.sync.get fulfils: this.rules = result[SITE_RULES] || [] *)
GetFulfils ==
  /\ calls # <<>>
  /\ Head(calls).pc = "get"
  /\ rules' = storedOrEmpty(storage)
  /\ calls' = Tail(calls)
  /\ ev' = Event("rules", "-")
  /\ arg' = OpArg("loadRules", "-", storage, "read", Head(calls).after)
  /\ UNCHANGED <<now, startupTime, acct, tasks, popupSettings, random,
                 storage, location, lastUrl, rulesLoaded,
                 limitRuleUpdateIntervalRunning, intervals, alert, budget>>

(* the catch branch of loadRules: this.rules = [] *)
rulesAfterFailedReadKept(cache) == cache

rulesAfterFailedRead(cache) == <<>>

(* storage.sync.get rejects *)
GetRejects ==
  /\ calls # <<>>
  /\ Head(calls).pc = "get"
  /\ rules' = rulesAfterFailedRead(rules)
  /\ calls' = Tail(calls)
  /\ ev' = Event("rules", "-")
  /\ arg' = OpArg("loadRules", "-", <<>>, "readFailed", Head(calls).after)
  /\ UNCHANGED <<now, startupTime, acct, tasks, popupSettings, random,
                 storage, location, lastUrl, rulesLoaded,
                 limitRuleUpdateIntervalRunning, intervals, alert, budget>>

NextOps ==
  \/ \E ruleData \in AddInputs : addRule(ruleData)
  \/ \E id \in OpIds, updates \in UpdateInputs : updateRule(id, updates)
  \/ \E id \in OpIds : toggleRule(id)
  \/ \E id \in OpIds : deleteRule(id)
  \/ \E newOrder \in OpOrders : reorderRulesCall(newOrder)
  \/ saveRulesCall
  \/ loadRulesCall
  \/ SetFulfils
  \/ SetRejects
  \/ GetFulfils
  \/ GetRejects

OpsSpec == InitOps /\ [][NextOps]_vars

----------------------------------------------------------------------------
(* The URL change detector on its own: the task detectUrlChangeService.run
   registers, called by the scheduler's ticks while the page navigates. arg
   is the sequence of the addresses carried by the urlChanged events
   dispatched so far; what the listeners of the event do is DetectTick's
   subject. *)

MaxDetectorNavs == 3

(* currentUrl !== lastUrl *)
UrlChangedAlways(currentUrl, last) == TRUE

UrlChanged(currentUrl, last) == currentUrl # last

InitDetector ==
  /\ now = StartTime
  /\ startupTime = 0
  /\ storage = <<>>
  /\ location \in Urls
  /\ lastUrl = NoUrl
  /\ rules = <<>>
  /\ rulesLoaded = FALSE
  /\ limitRuleUpdateIntervalRunning = FALSE
  /\ intervals = {}
  /\ calls = <<>>
  /\ alert = NoAlert
  /\ ev = NoEvent
  /\ budget = [nav |-> MaxDetectorNavs, edit |-> 0, load |-> 0]
  /\ acct = NoAcct
  /\ arg = <<>>
  /\ tasks = <<DetectorTask>>
  /\ random = 0
  /\ popupSettings = <<>>

(* one call of the detector's task *)
DetectorTaskRun ==
  /\ IF UrlChanged(location, lastUrl)
     THEN /\ lastUrl' = location
          /\ arg' = Append(arg, location)
          /\ ev' = Event("urlChanged", "-")
     ELSE /\ ev' = Event("quiet", "-")
          /\ UNCHANGED <<lastUrl, arg>>
  /\ UNCHANGED <<now, startupTime, acct, tasks, popupSettings, random,
                 storage, location, rules, rulesLoaded,
                 limitRuleUpdateIntervalRunning, intervals, calls, alert,
                 budget>>

NextDetector ==
  \/ DetectorTaskRun
  \/ \E u \in Urls : Navigate(u)

DetectorSpec == InitDetector /\ [][NextDetector]_vars

----------------------------------------------------------------------------
(* SchedulerService: tasks are registered with addTask and every tick of the
   scheduler's setInterval calls each of them. A task is named by what a call
   of it does: it returns, it throws, or, being an async function, it
   returns a promise that resolves or one that rejects. arg is the sequence
   of the positions of the tasks the last tick called, in call order. *)

SchedulerIntervalMs == 1000

MaxTasks == 3
MaxTicks == 2

TaskKinds == {"returns", "throws", "resolves", "rejects"}

(* for (const task of this.tasks) { try { task() } catch { console.error } }
   from position i on: the positions called *)
RECURSIVE runTasksUncaught(_, _)
runTasksUncaught(ts, i) ==
  IF i > Len(ts) THEN <<>>
  ELSE IF ts[i] = "throws" THEN <<i>>
  ELSE <<i>> \o runTasksUncaught(ts, i + 1)

RECURSIVE runTasks(_, _)
runTasks(ts, i) ==
  IF i > Len(ts) THEN <<>>
  ELSE <<i>> \o runTasks(ts, i + 1)

InitScheduler ==
  /\ now = StartTime
  /\ startupTime = 0
  /\ storage = <<>>
  /\ location = FirstUrl
  /\ lastUrl = NoUrl
  /\ rules = <<>>
  /\ rulesLoaded = FALSE
  /\ limitRuleUpdateIntervalRunning = FALSE
  /\ intervals = {}
  /\ calls = <<>>
  /\ alert = NoAlert
  /\ ev = NoEvent
  /\ budget = [nav |-> 0, edit |-> 0, load |-> 0]
  /\ acct = NoAcct
  /\ arg = <<>>
  /\ tasks = <<>>
  /\ random = 0
  /\ popupSettings = <<>>

(* addTask(task): this.tasks.push(task) *)
addTask(task) ==
  /\ Len(tasks) < MaxTasks
  /\ tasks' = Append(tasks, task)
  /\ ev' = Event("addTask", "-")
  /\ UNCHANGED <<now, startupTime, acct, arg, random, popupSettings, storage,
                 location, lastUrl, rules, rulesLoaded,
                 limitRuleUpdateIntervalRunning, intervals, calls, alert,
                 budget>>

(* the callback of the scheduler's setInterval *)
SchedulerTick ==
  /\ now + SchedulerIntervalMs <= StartTime + MaxTicks * SchedulerIntervalMs
  /\ now' = now + SchedulerIntervalMs
  /\ arg' = IF Len(tasks) > 0 THEN runTasks(tasks, 1) ELSE <<>>
  /\ ev' = Event("tick", "-")
  /\ UNCHANGED <<startupTime, acct, tasks, popupSettings, random, storage,
                 location, lastUrl, rules, rulesLoaded,
                 limitRuleUpdateIntervalRunning, intervals, calls, alert,
                 budget>>

NextScheduler ==
  \/ \E task \in TaskKinds : addTask(task)
  \/ SchedulerTick

SchedulerSpec == InitScheduler /\ [][NextScheduler]_vars

----------------------------------------------------------------------------
(* The background script: the startup and install listeners, which store the
   startup time, and the getUptime message handler. arg is the handler's
   last answer, in milliseconds. *)

DefaultSettings == [hideYoutubeShorts |-> TRUE, halalMode |-> FALSE]

(* the block-youtube-shorts preset as the rule the install listener stores *)
DefaultRule(t) ==
  SiteRule("preset_block-youtube-shorts_" \o ToString(t),
           "Block YouTube Shorts", <<"y", "s">>, "contains", BlockAction, TRUE)

InitUptime ==
  /\ now = StartTime
  /\ startupTime \in {0, StartTime - FreshnessMs}
  /\ storage \in {<<>>, <<Templates.d>>}
  /\ location = FirstUrl
  /\ lastUrl = NoUrl
  /\ rules = <<>>
  /\ rulesLoaded = FALSE
  /\ limitRuleUpdateIntervalRunning = FALSE
  /\ intervals = {}
  /\ calls = <<>>
  /\ alert = NoAlert
  /\ ev = NoEvent
  /\ budget = [nav |-> 0, edit |-> 0, load |-> 0]
  /\ acct = NoAcct
  /\ arg = NoArg
  /\ tasks = <<DetectorTask>>
  /\ random = 0
  /\ popupSettings \in {<<>>, <<[hideYoutubeShorts |-> FALSE, halalMode |-> TRUE]>>}

(* runtime.onStartup listener *)
onStartup ==
  /\ startupTime' = now
  /\ ev' = Event("onStartup", "-")
  /\ UNCHANGED <<now, acct, arg, tasks, popupSettings, random, storage,
                 location, lastUrl, rules, rulesLoaded,
                 limitRuleUpdateIntervalRunning, intervals, calls, alert,
                 budget>>

NoRulesStoredIgnored(stored) == TRUE

(* onInstalled's test !existingRules[SITE_RULES] || length === 0: an absent
   key and a stored empty array are both the empty sequence here *)
NoRulesStored(stored) == Len(stored) = 0

(* runtime.onInstalled listener; nothing else writes between its awaits: at
   install no other context of the extension exists yet *)
onInstalled ==
  /\ startupTime' = now
  /\ popupSettings' = IF popupSettings = <<>> THEN <<DefaultSettings>>
                      ELSE popupSettings
  /\ storage' = IF NoRulesStored(storage) THEN <<DefaultRule(now)>>
              ELSE storage
  /\ ev' = Event("onInstalled", "-")
  /\ UNCHANGED <<now, acct, arg, tasks, random, location, lastUrl, rules,
                 rulesLoaded, limitRuleUpdateIntervalRunning, intervals,
                 calls, alert, budget>>

(* runtime.onMessage listener answering { action: 'getUptime' } *)
getUptime ==
  /\ arg' = [uptimeMs |-> UptimeMs(now)]
  /\ ev' = Event("getUptime", "-")
  /\ UNCHANGED <<now, startupTime, acct, tasks, popupSettings, random, storage,
                 location, lastUrl, rules, rulesLoaded,
                 limitRuleUpdateIntervalRunning, intervals, calls, alert,
                 budget>>

NextUptime ==
  \/ onStartup
  \/ onInstalled
  \/ getUptime
  \/ \E d \in Steps : Advance(d)

UptimeSpec == InitUptime /\ [][NextUptime]_vars

----------------------------------------------------------------------------
(* The notice page. alert holds the query parameters the page was opened
   with (allowedAt travels as the decimal digits of an integer, which
   parseInt reads back), intervals the pending setTimeout of the countdown;
   arg is the notice whose page sent the tab back. *)

CountdownIntervalMs == 1000

MaxCountdownMs == 4000

CountdownSteps == {CountdownIntervalMs \div 2, CountdownIntervalMs}

AlertInputs ==
  { redirectToAlertPage("block", FirstUrl, "t", NoAllowedAt) } \cup
  { redirectToAlertPage("limit", FirstUrl, "t", allowedAt) :
      allowedAt \in {NoAllowedAt, StartTime - CountdownIntervalMs, StartTime,
                     StartTime + CountdownIntervalMs \div 2,
                     StartTime + CountdownIntervalMs + CountdownIntervalMs \div 2,
                     StartTime + 2 * CountdownIntervalMs,
                     StartTime + 3 * CountdownIntervalMs} }

InitAlert ==
  /\ now = StartTime
  /\ startupTime = 0
  /\ storage = <<>>
  /\ location = FirstUrl
  /\ lastUrl = NoUrl
  /\ rules = <<>>
  /\ rulesLoaded = FALSE
  /\ limitRuleUpdateIntervalRunning = FALSE
  /\ intervals = {}
  /\ calls = <<>>
  /\ alert \in AlertInputs
  /\ ev = NoEvent
  /\ budget = [nav |-> 0, edit |-> 0, load |-> 0]
  /\ acct = NoAcct
  /\ arg = NoArg
  /\ tasks = <<>>
  /\ random = 0
  /\ popupSettings = <<>>

(* timeRemaining <= 0 in updateCountdown *)
CountdownOverEarly(allowedAt, t) == allowedAt - t <= CountdownIntervalMs

CountdownOver(allowedAt, t) == allowedAt - t <= 0

(* window.location.href = currentUrl: the tab leaves the notice page *)
LeaveAlertPage ==
  /\ location' = alert.currentUrl
  /\ arg' = alert
  /\ alert' = NoAlert
  /\ intervals' = {}
  /\ ev' = Event("redirect", "-")

(* updateCountdown *)
updateCountdown ==
  IF CountdownOver(alert.allowedAt, now)
  THEN LeaveAlertPage
  ELSE /\ intervals' = { [id |-> 1, ruleId |-> "-", url |-> alert.currentUrl,
                          title |-> alert.ruleTitle,
                          nextFire |-> now + CountdownIntervalMs] }
       /\ ev' = Event("countdown", "-")
       /\ UNCHANGED <<location, alert, arg>>

(* the DOMContentLoaded listener of the notice page *)
AlertDOMContentLoaded ==
  /\ ~Alive
  /\ ev = NoEvent
  /\ IF alert.type = "block"
     THEN /\ ev' = Event("message", "-")
          /\ UNCHANGED <<location, alert, arg, intervals>>
     ELSE IF alert.allowedAt # NoAllowedAt /\ alert.allowedAt > now
          THEN updateCountdown
          ELSE LeaveAlertPage
  /\ UNCHANGED <<now, startupTime, acct, tasks, popupSettings, random, storage,
                 lastUrl, rules, rulesLoaded, limitRuleUpdateIntervalRunning,
                 calls, budget>>

(* the countdown's setTimeout fires, at or after the time it was set for *)
CountdownTimeout ==
  /\ ~Alive
  /\ \E timer \in intervals : now >= timer.nextFire
  /\ updateCountdown
  /\ UNCHANGED <<now, startupTime, acct, tasks, popupSettings, random, storage,
                 lastUrl, rules, rulesLoaded, limitRuleUpdateIntervalRunning,
                 calls, budget>>

(* time passes once the notice page has loaded *)
AdvanceOnAlert(d) ==
  /\ ev # NoEvent
  /\ now + d <= StartTime + MaxCountdownMs
  /\ now' = now + d
  /\ ev' = Event("wait", "-")
  /\ UNCHANGED <<startupTime, acct, arg, tasks, popupSettings, random, storage,
                 location, lastUrl, rules, rulesLoaded,
                 limitRuleUpdateIntervalRunning, intervals, calls, alert,
                 budget>>

NextAlert ==
  \/ AlertDOMContentLoaded
  \/ CountdownTimeout
  \/ \E d \in CountdownSteps : AdvanceOnAlert(d)

AlertSpec == InitAlert /\ [][NextAlert]_vars

----------------------------------------------------------------------------
(* The matcher as a function: a rule, an address, and one step that matches
   the address under the rule's mode and under the Not mode of it. arg is
   what the two calls did: "true", "false", or "throws" when new RegExp
   threw. *)

PositiveModes == {"equalTo", "startsWith", "endsWith", "contains", "regex"}

NotMode(matchType) ==
  CASE matchType = "equalTo"    -> "notEqualTo"
    [] matchType = "startsWith" -> "notStartsWith"
    [] matchType = "endsWith"   -> "notEndsWith"
    [] matchType = "contains"   -> "notContains"
    [] matchType = "regex"      -> "notRegex"

MatchUrls == Urls \cup { <<"s", "y">>, <<"w", "y", "s">> }

MatchPatterns == { <<"y">>, <<"s">>, <<"y", "s">>, <<"w", "y">>, <<"(">> }

(* what a call of ruleMatchWithUrl does *)
MatchOutcome(rule, url) ==
  IF ruleMatchThrows(rule) THEN "throws"
  ELSE IF ruleMatchWithUrl(rule, url) THEN "true" ELSE "false"

InitMatcher ==
  /\ now = StartTime
  /\ startupTime = 0
  /\ storage = <<>>
  /\ location \in MatchUrls
  /\ lastUrl = NoUrl
  /\ rules \in { <<SiteRule("m", "t", p, matchType, BlockAction, TRUE)>> :
                   p \in MatchPatterns, matchType \in PositiveModes }
  /\ rulesLoaded = TRUE
  /\ limitRuleUpdateIntervalRunning = FALSE
  /\ intervals = {}
  /\ calls = <<>>
  /\ alert = NoAlert
  /\ ev = NoEvent
  /\ budget = [nav |-> 0, edit |-> 0, load |-> 0]
  /\ acct = NoAcct
  /\ arg = NoArg
  /\ tasks = <<>>
  /\ random = 0
  /\ popupSettings = <<>>

(* ruleMatchWithUrl(rule, url) for the rule and for the rule with the Not
   mode of its mode *)
MatchBothModes ==
  /\ arg' = [positive |-> MatchOutcome(rules[1], location),
             negative |-> MatchOutcome([rules[1] EXCEPT
                                          !.matchType = NotMode(@)], location)]
  /\ ev' = Event("match", rules[1].id)
  /\ UNCHANGED <<now, startupTime, acct, tasks, popupSettings, random, storage,
                 location, lastUrl, rules, rulesLoaded,
                 limitRuleUpdateIntervalRunning, intervals, calls, alert,
                 budget>>

NextMatcher == MatchBothModes

MatcherSpec == InitMatcher /\ [][NextMatcher]_vars

(* The monitor of one page context that stays on one address, over a
   session in which the options page toggles the rule and a read of the
   store may fail; the timer, the storage calls and the clock are fair *)

MaxMonitorElapsed == 30000
MaxMonitorEdits == 2
MaxReadFailures == 1

(* limit rule b left by an earlier session two monitor periods short of its
   quota, half of its reset window gone *)
MonitoredRule ==
  [Templates.b EXCEPT
     !.action = LimitAction(1, 2, 0, MsPerMinute - 2 * MonitorIntervalMs,
                            StartTime - MsPerMinute, StartTime - MsPerMinute)]

InitMonitor ==
  /\ now = StartTime
  /\ startupTime = StartTime - FreshnessMs
  /\ storage = <<MonitoredRule>>
  /\ location = FirstUrl
  /\ lastUrl = NoUrl
  /\ rules = <<>>
  /\ rulesLoaded = FALSE
  /\ limitRuleUpdateIntervalRunning = FALSE
  /\ intervals = {}
  /\ calls = <<>>
  /\ alert = NoAlert
  /\ ev = NoEvent
  /\ budget = [nav |-> 0, edit |-> MaxMonitorEdits, load |-> 0,
               fail |-> MaxReadFailures]
  /\ acct = NoAcct
  /\ arg = NoArg
  /\ tasks = <<DetectorTask>>
  /\ random = 0
  /\ popupSettings = <<>>

(* one period of the monitor's setInterval passes; timers fire when they are
   due and storage calls and messages settle within a period *)
AdvanceMonitor ==
  /\ now + MonitorIntervalMs <= StartTime + MaxMonitorElapsed
  /\ Alive => location = lastUrl
  /\ calls = <<>>
  /\ \A iv \in intervals : now < iv.nextFire
  /\ now' = now + MonitorIntervalMs
  /\ ev' = NoEvent
  /\ UNCHANGED <<startupTime, acct, arg, tasks, popupSettings, random,
                 storage, location, lastUrl, rules, rulesLoaded,
                 limitRuleUpdateIntervalRunning, intervals, calls, alert,
                 budget>>

(* storage.sync.get rejects inside the monitor callback's loadRules: the
   catch empties the cache, getRuleById finds nothing and the callback
   clears its interval *)
TickLoadRejects ==
  \E i \in 1..Len(calls) :
    /\ Alive
    /\ calls[i].pc = "tickLoad"
    /\ budget.fail > 0
    /\ budget' = [budget EXCEPT !.fail = @ - 1]
    /\ calls' = Detach(RemoveAt(calls, i), rules)
    /\ rules' = <<>>
    /\ intervals' = clearInterval(calls[i].interval)
    /\ ev' = Event("tickStop", calls[i].ruleId)
    /\ UNCHANGED <<now, startupTime, acct, arg, tasks, popupSettings, random,
                   storage, location, lastUrl, rulesLoaded,
                   limitRuleUpdateIntervalRunning, alert>>

NextMonitor ==
  \/ DetectTick
  \/ \E i \in 1..MaxCalls : LoadResolve(i)
  \/ \E i \in 1..MaxCalls : SaveResolve(i)
  \/ \E i \in 1..MaxCalls : UptimeResolve(i)
  \/ \E iv \in intervals : MonitorTick(iv)
  \/ \E i \in 1..MaxCalls : TickLoadResolve(i)
  \/ TickLoadRejects
  \/ AdvanceMonitor
  \/ \E k \in 1..MaxRules : OptionsToggle(k)

(* the scheduler's timer, the monitor's timer and the clock keep running and
   every storage call and message settles *)
MonitorSpec ==
  /\ InitMonitor
  /\ [][NextMonitor]_vars
  /\ WF_vars(DetectTick)
  /\ WF_vars(\E i \in 1..MaxCalls : LoadResolve(i))
  /\ WF_vars(\E i \in 1..MaxCalls : SaveResolve(i))
  /\ WF_vars(\E i \in 1..MaxCalls : UptimeResolve(i))
  /\ WF_vars(\E iv \in intervals : MonitorTick(iv))
  /\ WF_vars(\E i \in 1..MaxCalls : TickLoadResolve(i))
  /\ WF_vars(AdvanceMonitor)

----------------------------------------------------------------------------
(* The options page editing the rules of a store whose limit rule has been
   in use: the same handlers as StoreSpec, over a store left by a session *)
InitEdit ==
  /\ now = StartTime
  /\ startupTime = 0
  /\ storage \in { <<MonitoredRule>>, <<Templates.a, MonitoredRule>> }
  /\ location = FirstUrl
  /\ lastUrl = NoUrl
  /\ rules = storage
  /\ rulesLoaded = TRUE
  /\ limitRuleUpdateIntervalRunning = FALSE
  /\ intervals = {}
  /\ calls = <<>>
  /\ alert = NoAlert
  /\ ev = NoEvent
  /\ budget = [nav |-> 0, edit |-> MaxStoreOps, load |-> 0]
  /\ acct = NoAcct
  /\ arg = NoArg
  /\ tasks = <<DetectorTask>>
  /\ random = 0
  /\ popupSettings = <<>>

EditSpec == InitEdit /\ [][NextStore]_vars

----------------------------------------------------------------------------
(* A tab between the engine and the notice page: a page context on an
   address limited by the one stored rule, redirected when the quota is used
   up, and sent back by the notice page to a new page context.  No other
   context writes the store.  arg is the notice that sent the tab back and
   the time it did. *)

MaxReturns == 2

(* limit rules with allowedMinutes 1 as an earlier session left them: half
   or all of the quota used, the window begun half a minute ago or just now *)
ReturnRules ==
  { SiteRule("b", "B", <<"y">>, "startsWith",
             LimitAction(1, reset, delay, used, StartTime - back,
                         StartTime - FreshnessMs - MonitorIntervalMs),
             TRUE) :
      reset \in {1, 2}, delay \in {0, 1},
      used \in {FreshnessMs, MsPerMinute},
      back \in {0, FreshnessMs} }

InitReturn ==
  /\ now = StartTime
  /\ startupTime = StartTime - 2 * MsPerMinute
  /\ storage \in { <<r>> : r \in ReturnRules }
  /\ location = FirstUrl
  /\ lastUrl = NoUrl
  /\ rules = <<>>
  /\ rulesLoaded = FALSE
  /\ limitRuleUpdateIntervalRunning = FALSE
  /\ intervals = {}
  /\ calls = <<>>
  /\ alert = NoAlert
  /\ ev = NoEvent
  /\ budget = [nav |-> 0, edit |-> 0, load |-> MaxReturns]
  /\ acct = NoAcct
  /\ arg = NoArg
  /\ tasks = <<DetectorTask>>
  /\ random = 0
  /\ popupSettings = <<>>

(* the limit notice sends the tab back to currentUrl once allowedAt is
   reached (at its load, or when its countdown is over): a new page context
   with a new RulesService and detector *)
ReturnFromNotice ==
  /\ ~Alive
  /\ alert.type = "limit"
  /\ alert.allowedAt # NoAllowedAt
  /\ CountdownOver(alert.allowedAt, now)
  /\ budget.load > 0
  /\ budget' = [budget EXCEPT !.load = @ - 1]
  /\ arg' = [notice |-> alert, at |-> now]
  /\ location' = alert.currentUrl
  /\ lastUrl' = NoUrl
  /\ rules' = <<>>
  /\ rulesLoaded' = FALSE
  /\ limitRuleUpdateIntervalRunning' = FALSE
  /\ intervals' = {}
  /\ calls' = <<>>
  /\ alert' = NoAlert
  /\ ev' = NoEvent
  /\ UNCHANGED <<now, startupTime, acct, tasks, popupSettings, random,
                 storage>>

NextReturn ==
  \/ DetectTick
  \/ \E i \in 1..MaxCalls : LoadResolve(i)
  \/ \E i \in 1..MaxCalls : SaveResolve(i)
  \/ \E i \in 1..MaxCalls : UptimeResolve(i)
  \/ \E iv \in intervals : MonitorTick(iv)
  \/ \E i \in 1..MaxCalls : TickLoadResolve(i)
  \/ \E d \in Steps : Advance(d)
  \/ ReturnFromNotice

ReturnSpec == InitReturn /\ [][NextReturn]_vars

----------------------------------------------------------------------------
TypeOK ==
  /\ now \in StartTime..(StartTime + MaxElapsed)
  /\ Len(calls) <= MaxCalls
  /\ rulesLoaded \in BOOLEAN

----------------------------------------------------------------------------
(* Properties *)

DispatchKinds == {"throw", "nomatch", "allow", "block", "navUpdate"}
GrantKinds == {"grant", "grantRunning"}

(* the rule matches the URL: it is enabled and its matcher returns true *)
EnabledMatch(rule, url) ==
  rule.enabled /\ ~ruleMatchThrows(rule) /\ ruleMatchWithUrl(rule, url)

FirstEnabledMatch(rs, url) ==
  IF \E i \in 1..Len(rs) : EnabledMatch(rs[i], url)
  THEN CHOOSE i \in 1..Len(rs) :
         EnabledMatch(rs[i], url) /\ \A j \in 1..(i - 1) : ~EnabledMatch(rs[j], url)
  ELSE 0

KindOfAction(type) ==
  CASE type = "allow" -> "allow" [] type = "block" -> "block"
    [] type = "limit" -> "navUpdate"

(* the id of the rule whose action applyRule applies, "-" when it applies none *)
FiredId(rs, url) ==
  IF FindMatched(rs, url) > 0 THEN rs[FindMatched(rs, url)].id ELSE "-"

(* rs with its element i moved to position j *)
MoveRule(rs, i, j) ==
  LET without == RemoveAt(rs, i)
  IN SubSeq(without, 1, j - 1) \o <<rs[i]>> \o SubSeq(without, j, Len(without))

(* C1: on every navigation event applyRule applies the action of exactly the
   first rule of the sequence that is enabled and matches the current URL
   (none when there is no such rule), and moving a rule that does not match
   the URL to another position does not change which rule fires. *)
C1_FirstEnabledMatchFires ==
  ev.kind \in DispatchKinds =>
    /\ LET m == FirstEnabledMatch(rules, location)
       IN IF m = 0 THEN ev.id = "-"
          ELSE ev.id = rules[m].id /\ ev.kind = KindOfAction(rules[m].action.type)
    /\ \A i, j \in 1..Len(rules) :
         ~EnabledMatch(rules[i], location)
           => FiredId(MoveRule(rules, i, j), location) = ev.id

(* C2: when the first enabled match of a navigation event is a Block rule,
   the context is redirected to the notice page with type block, the blocked
   URL and the rule's title and without allowedAt; the step writes nothing to
   the rule store and starts no monitor. *)
C2_BlockRedirects ==
  [][ ( /\ ev'.kind \in DispatchKinds
        /\ FindMatched(rules', location') > 0
        /\ rules'[FindMatched(rules', location')].action.type = "block" )
      => /\ alert' = [type |-> "block", currentUrl |-> location',
                      ruleTitle |-> rules'[FindMatched(rules', location')].title,
                      allowedAt |-> NoAllowedAt]
         /\ storage' = storage
         /\ intervals' = intervals
         /\ limitRuleUpdateIntervalRunning' = limitRuleUpdateIntervalRunning
    ]_vars

C2_Witness ==
  /\ ev.kind = "block"
  /\ alert.type = "block"
  /\ alert.currentUrl = location
  /\ Len(rules) = MaxRules

(* C3: a Limit rule with allowedMinutes = 0 is never redirected to the limit
   notice by the quota gate, neither on a navigation event nor on a monitor
   tick. *)
C3_ZeroAllowedNeverQuotaRedirected ==
  ev.kind \in {"quotaRedirect", "tickRedirect"}
    => Templates[ev.id].action.allowedMinutes # 0

(* C4: whenever a navigation event reaches the grant step and no monitoring
   interval is active in the page context, a monitoring interval is started. *)
C4_GrantStartsMonitor ==
  [][ (ev'.kind \in GrantKinds /\ calls' # calls /\ intervals = {})
      => intervals' # {} ]_vars

(* C5: at most one monitoring interval is active in the page context. *)
C5_AtMostOneMonitor == Cardinality(intervals) <= 1

C5_Witness ==
  /\ ev.kind = "grantRunning"
  /\ Cardinality(intervals) = 1
  /\ Len(calls) > 0

(* C6: usage is added on a monitor tick only while the page's current address
   still matches the monitored rule; once it no longer matches, the tick stops
   the monitor instead. *)
C6_TickAccountsOnlyWhileMatching ==
  ev.kind = "tickUpdate"
    => /\ getRuleById(rules, ev.id) > 0
       /\ ruleMatchWithUrl(rules[getRuleById(rules, ev.id)], location)

(* C7: every accounting step, on a navigation event as on a monitor tick,
   works on the rule sequence as persisted at that moment: what it writes is
   the stored sequence with the usage fields of the one rule brought up to
   date. *)
C7_AccountsFromStoredSequence ==
  [][ (ev'.kind \in {"navUpdate", "tickUpdate"} /\ calls' # calls)
      => /\ getRuleById(storage, ev'.id) > 0
         /\ storage' = [storage EXCEPT ![getRuleById(storage, ev'.id)].action =
                          updateLimitRuleUsage(@, now)]
    ]_vars

(* C8: a call of updateUsage at time t sets lastUsedAt = t and, unless the
   reset condition holds, adds exactly t - lastUsedAt to the usage when that
   gap is at most 30000 ms and nothing when it is larger; so over consecutive
   calls with gaps of at most 30 s and no reset the usage has grown by exactly
   the time between the first and the last call. *)
C8_UsageAccrual ==
  /\ [][ now' = now =>
           LET a == storage[1].action
               b == storage'[1].action
               gap == now - a.lastUsedAt
           IN /\ b.lastUsedAt = now
              /\ (now - a.lastResetAt < a.resetAfterMinutes * 60000)
                   => b.usedMs = a.usedMs + (IF gap <= 30000 THEN gap ELSE 0)
       ]_vars
  /\ [](storage[1].action.usedMs =
          acct.used + (storage[1].action.lastUsedAt - acct.at))

C8_Witness ==
  /\ ev.kind = "update"
  /\ storage[1].action.lastUsedAt = acct.at + 2 * FreshnessMs
  /\ storage[1].action.usedMs = acct.used + 2 * FreshnessMs

(* C9: a call of updateUsage at time t with t - lastResetAt >=
   resetAfterMinutes * 60000 leaves usedMinutes = 0 and lastResetAt = t;
   otherwise lastResetAt is unchanged and the usage is not taken back. *)
C9_Reset ==
  [][ now' = now =>
        LET a == storage[1].action
            b == storage'[1].action
        IN IF now - a.lastResetAt >= a.resetAfterMinutes * 60000
           THEN b.usedMs = 0 /\ b.lastResetAt = now
           ELSE b.lastResetAt = a.lastResetAt /\ b.usedMs >= a.usedMs
    ]_vars

C9_Witness ==
  /\ ev.kind = "update"
  /\ storage[1].action.resetAfterMinutes = 1
  /\ storage[1].action.lastResetAt = now
  /\ now = StartTime + 2 * FreshnessMs
  /\ storage[1].action.usedMs = 0

(* C10: when the getUptime reply arrives for a navigation event that matched
   a Limit rule and delayMinutes * 60000 exceeds the uptime, the context is
   redirected with type limit and allowedAt = now + delay - uptime, whatever
   the usage, and no monitor is started. *)
C10_DelayGate ==
  [][ \A i \in 1..Len(calls) :
        ( /\ calls[i].pc = "uptime"
          /\ calls' = RemoveAt(calls, i)
          /\ ev'.kind \in GrantKinds \cup {"delayRedirect", "quotaRedirect"}
          /\ Templates[calls[i].ruleId].action.delayMinutes * 60000
               > (IF startupTime = 0 THEN 0 ELSE now - startupTime) )
        => /\ alert' = [type |-> "limit", currentUrl |-> calls[i].url,
                        ruleTitle |-> Templates[calls[i].ruleId].title,
                        allowedAt |->
                          now + Templates[calls[i].ruleId].action.delayMinutes * 60000
                              - (IF startupTime = 0 THEN 0 ELSE now - startupTime)]
           /\ intervals' = intervals
           /\ limitRuleUpdateIntervalRunning' = limitRuleUpdateIntervalRunning
    ]_vars

C10_Witness ==
  /\ ev.kind = "delayRedirect"
  /\ startupTime # 0
  /\ alert.allowedAt > now
  /\ getRuleById(storage, ev.id) > 0
  /\ QuotaGate(storage[getRuleById(storage, ev.id)].action)

(* C11: when the getUptime reply arrives for a navigation event that matched
   a Limit rule and the delay has elapsed (delayMinutes * 60000 <= uptime),
   the context is redirected with type limit and allowedAt = lastResetAt +
   resetAfterMinutes * 60000 exactly when the usedMinutes read after the
   accounting step is >= allowedMinutes, and then no monitor is started;
   when usedMinutes < allowedMinutes the context is not redirected. *)
C11_QuotaGate ==
  [][ \A i \in 1..Len(calls) :
        ( /\ calls[i].pc = "uptime"
          /\ calls' = RemoveAt(calls, i)
          /\ ev'.kind \in GrantKinds \cup {"delayRedirect", "quotaRedirect"}
          /\ calls[i].snap.delayMinutes * 60000
               <= (IF startupTime = 0 THEN 0 ELSE now - startupTime) )
        => LET a == calls[i].snap
           IN IF a.usedMs >= a.allowedMinutes * 60000
              THEN /\ alert'.type = "limit"
                   /\ alert'.allowedAt = a.lastResetAt + a.resetAfterMinutes * 60000
                   /\ intervals' = intervals
                   /\ limitRuleUpdateIntervalRunning' = limitRuleUpdateIntervalRunning
              ELSE alert' = NoAlert
    ]_vars

C11_Witness ==
  /\ ev.kind = "quotaRedirect"
  /\ Templates[ev.id].action.allowedMinutes > 0
  /\ alert.type = "limit"
  /\ alert.allowedAt = StartTime + Templates[ev.id].action.resetAfterMinutes * 60000
  /\ intervals # {}

(* C12: for a limit rule with allowedMinutes 10, resetAfterMinutes 60,
   delayMinutes 0, usedMinutes 9.5, lastResetAt = lastUsedAt = now - 1000 at
   uptime 3600 s, the navigation accounted at now ends with usedMinutes >= 10
   and the limit notice with allowedAt = lastResetAt + 3600000. *)
C12_ScenarioRedirects ==
  ( /\ acct = [used |-> 570000, at |-> StartTime - 1000]
    /\ now = StartTime
    /\ ev.kind \in GrantKinds \cup {"delayRedirect", "quotaRedirect"} )
  => /\ ev.kind = "quotaRedirect"
     /\ storage[1].action.usedMs >= 10 * 60000
     /\ alert.type = "limit"
     /\ alert.allowedAt = (StartTime - 1000) + 3600000

(* C12 as amended: in that scenario the accounting adds the 1000 ms since
   lastUsedAt, usedMinutes becomes 9.5 + 1000/60000 and stays below 10, and the
   navigation is not redirected: access is granted and the monitor runs. *)
C12_ScenarioGrants ==
  ( /\ acct = [used |-> 570000, at |-> StartTime - 1000]
    /\ now = StartTime
    /\ ev.kind \in GrantKinds \cup {"delayRedirect", "quotaRedirect"} )
  => /\ ev.kind \in GrantKinds
     /\ storage[1].action.usedMs = 570000 + 1000
     /\ storage[1].action.usedMs < 10 * 60000
     /\ alert = NoAlert
     /\ intervals # {}

C12_Witness ==
  /\ acct = [used |-> 570000, at |-> StartTime - 1000]
  /\ now = StartTime
  /\ ev.kind = "grant"
  /\ storage[1].action.usedMs = 571000
  /\ storage[1].action.lastUsedAt = StartTime

TickKinds == {"tickStop", "tickThrow", "tickRedirect", "tickUpdate"}

(* C13: on a monitor tick where the freshly loaded monitored rule is still
   applicable (it exists, is enabled, is a Limit rule and matches the address
   the monitor watches): if its usedMinutes >= allowedMinutes the monitor
   stops and the context is redirected with type limit and allowedAt =
   lastResetAt + resetAfterMinutes * 60000 of the loaded values; otherwise
   the loaded rule is accounted and saved and the monitor keeps running. *)
C13_TickQuotaGate ==
  [][ \A i \in 1..Len(calls) :
        ( /\ calls[i].pc = "tickLoad"
          /\ ev'.kind \in TickKinds
          /\ Len(calls') < Len(calls) )
        => LET k == getRuleById(storage, calls[i].ruleId)
           IN ( /\ k > 0
                /\ storage[k].action.type = "limit"
                /\ EnabledMatch(storage[k], calls[i].url) )
              => LET a == storage[k].action
                 IN IF a.usedMs >= a.allowedMinutes * 60000
                    THEN /\ \A iv \in intervals' : iv.id # calls[i].interval
                         /\ alert'.type = "limit"
                         /\ alert'.allowedAt =
                              a.lastResetAt + a.resetAfterMinutes * 60000
                         /\ storage' = storage
                    ELSE /\ storage' = [storage EXCEPT ![k].action =
                                          [a EXCEPT
                                             !.usedMs =
                                               IF now - a.lastResetAt
                                                    >= a.resetAfterMinutes * 60000
                                               THEN 0
                                               ELSE IF now - a.lastUsedAt <= 30000
                                                    THEN @ + (now - a.lastUsedAt)
                                                    ELSE @,
                                             !.lastResetAt =
                                               IF now - a.lastResetAt
                                                    >= a.resetAfterMinutes * 60000
                                               THEN now ELSE @,
                                             !.lastUsedAt = now]]
                         /\ intervals' = intervals
                         /\ alert' = NoAlert
    ]_vars

C13_Witness ==
  /\ ev.kind = "tickRedirect"
  /\ Templates[ev.id].action.allowedMinutes > 0
  /\ alert.type = "limit"
  /\ alert.allowedAt = StartTime + Templates[ev.id].action.resetAfterMinutes * 60000
  /\ intervals = {}

(* C14: on a monitor tick where the freshly loaded monitored rule no longer
   exists, is disabled or is no longer a Limit rule, the monitor stops, the
   callback raises no error, the context is not redirected and nothing is
   written to storage. *)
C14_TickStopsSilently ==
  [][ \A i \in 1..Len(calls) :
        ( /\ calls[i].pc = "tickLoad"
          /\ ev'.kind \in TickKinds
          /\ Len(calls') < Len(calls) )
        => LET k == getRuleById(storage, calls[i].ruleId)
           IN (k = 0 \/ ~storage[k].enabled \/ storage[k].action.type # "limit")
              => /\ \A iv \in intervals' : iv.id # calls[i].interval
                 /\ ev'.kind # "tickThrow"
                 /\ alert' = alert
                 /\ storage' = storage
    ]_vars

(* C15: an enabled Allow rule that matches the URL overrides the other rules:
   while the store holds such a rule, no navigation to that URL is redirected
   by a Block or Limit rule, whatever the order of the rules. *)
C15_AllowOverrides ==
  ev.kind \in {"block", "delayRedirect", "quotaRedirect"}
    => ~ \E k \in 1..Len(storage) :
           /\ storage[k].action.type = "allow"
           /\ EnabledMatch(storage[k], alert.currentUrl)

(* C16: when the first enabled match of a navigation event is an Allow rule,
   or no enabled rule matches (also when the only matching rule is disabled),
   applyRule does not redirect, writes nothing to the rule store and starts
   neither a monitor nor an accounting. *)
C16_AllowAndNoMatchAreSilent ==
  [][ ( /\ ev'.kind \in DispatchKinds
        /\ LET m == FirstEnabledMatch(rules', location')
           IN m = 0 \/ rules'[m].action.type = "allow" )
      => /\ alert' = alert
         /\ storage' = storage
         /\ intervals' = intervals
         /\ limitRuleUpdateIntervalRunning' = limitRuleUpdateIntervalRunning
         /\ Len(calls') <= Len(calls)
    ]_vars

C16_Witness ==
  /\ ev.kind = "nomatch"
  /\ alert = NoAlert
  /\ \E k \in 1..Len(rules) :
       /\ ~rules[k].enabled
       /\ rules[k].action.type = "block"
       /\ ruleMatchWithUrl(rules[k], location)
  /\ \E k \in 1..Len(rules) :
       /\ rules[k].enabled
       /\ ~ruleMatchWithUrl(rules[k], location)

(* C17: over any sequence of updateUsage calls on a Limit rule, usedMinutes
   never decreases except in a call in which the reset condition (now -
   lastResetAt >= resetAfterMinutes * 60000) holds, and in such a call it
   becomes 0. *)
C17_UsageMonotoneUntilReset ==
  [][ LET a == storage[1].action
          b == storage'[1].action
      IN /\ b.usedMs < a.usedMs
              => now - a.lastResetAt >= a.resetAfterMinutes * 60000
         /\ now' = now /\ now - a.lastResetAt >= a.resetAfterMinutes * 60000
              => b.usedMs = 0
    ]_vars

C17_Witness ==
  /\ ev.kind = "update"
  /\ arg.usedMs > MonitorIntervalMs
  /\ arg.resetAfterMinutes > 0
  /\ storage[1].action.usedMs = 0
  /\ storage[1].action.lastResetAt = now

(* C18: when this page context and another one each hold a loaded copy of
   the rule sequence and both account the same Limit rule, the save of the
   later one writes its whole in-memory sequence over what the earlier one
   stored: the stored usage is then the later context's own figure and the
   usage the first writer added is lost. *)
C18_LastWriterWins ==
  [][ ( /\ ev'.kind = "navUpdate"
        /\ rulesLoaded
        /\ lastUrl' # lastUrl
        /\ acct # NoAcct )
      => LET idx == getRuleById(rules, ev'.id)
             a == rules[idx].action
         IN /\ idx > 0
            /\ storage' = [rules EXCEPT ![idx].action =
                  [a EXCEPT
                     !.usedMs = IF now - a.lastResetAt >= a.resetAfterMinutes * 60000
                                THEN 0
                                ELSE IF now - a.lastUsedAt <= 30000
                                     THEN @ + (now - a.lastUsedAt) ELSE @,
                     !.lastResetAt = IF now - a.lastResetAt
                                          >= a.resetAfterMinutes * 60000
                                     THEN now ELSE @,
                     !.lastUsedAt = now]]
    ]_vars

C18_Witness ==
  /\ ev.kind = "navUpdate"
  /\ acct # NoAcct
  /\ acct.used > 0
  /\ Len(storage) = 1
  /\ storage[1].id = ev.id
  /\ storage[1].action.lastResetAt < acct.at
  /\ storage[1].action.usedMs < acct.used

(* a rule no invalid input went into: a title, a pattern, positive allowed
   and reset minutes on a limit rule, a regular expression that compiles *)
ValidRule(rule) ==
  /\ rule.title # ""
  /\ rule.pattern # <<>>
  /\ rule.action.type = "limit"
       => rule.action.allowedMinutes > 0 /\ rule.action.resetAfterMinutes > 0
  /\ rule.matchType \in {"regex", "notRegex"} => RegExpCompiles(rule.pattern)

(* C19: invalid input (empty title, empty pattern, non-positive allowed or
   reset minutes, a malformed regular expression) is rejected when the form
   is read: no rule with such a field is added to or updated in the rule
   store. *)
C19_InvalidInputRejected ==
  /\ \A k \in 1..Len(storage) : ValidRule(storage[k])
  /\ \A k \in 1..Len(rules) : ValidRule(rules[k])

(* C20: reorderRules(idSequence) puts the stored rules named in idSequence
   first, in idSequence order, and appends every stored rule whose id is
   missing from idSequence after them in their original relative order, and
   the result is what is persisted; for a store [a, b, c] and idSequence
   [c, a] the result is [c, a, b]. *)
C20_Reorder ==
  [][ (ev'.kind = "reorder" /\ budget' # budget /\ HasDistinctIds(rules))
      => LET seq == arg'
             known == SelectSeq(seq, LAMBDA id : id \in IdsOf(rules))
             named == [j \in 1..Len(known) |->
                         rules[CHOOSE k \in 1..Len(rules) : rules[k].id = known[j]]]
             missing == SelectSeq(rules,
                                  LAMBDA r : \A j \in 1..Len(seq) : seq[j] # r.id)
         IN /\ rules' = named \o missing
            /\ storage' = rules'
            /\ ( /\ [k \in 1..Len(rules) |-> rules[k].id] = <<"a", "b", "c">>
                  /\ seq = <<"c", "a">> )
                 => [k \in 1..Len(rules') |-> rules'[k].id] = <<"c", "a", "b">>
    ]_vars

C20_Witness ==
  /\ ev.kind = "reorder"
  /\ arg = <<"c", "a">>
  /\ rules = <<Templates.c, Templates.a, Templates.b>>
  /\ storage = rules

(* the step is the call of op that left it awaiting storage *)
OpCalled(op) == arg'.op = op /\ arg'.outcome = "pending" /\ calls' # calls

(* the step is the resolution of op after its storage call settled *)
OpResolved(op) ==
  arg'.op = op /\ arg'.outcome \in {"written", "writeFailed"} /\ calls' # calls

AddRuleAppends ==
  OpCalled("addRule")
  => /\ arg'.id \notin IdsOf(rules)
     /\ Len(rules') = Len(rules) + 1
     /\ rules'[Len(rules')].id = arg'.id
     /\ SubSeq(rules', 1, Len(rules)) = rules

(* C21 as stated: addRule gives the new rule an id different from every id
   already in the store, appends it as the last element while leaving the
   existing rules and their order unchanged, and has persisted the sequence
   before it resolves. *)
C21_AddRulePersisted ==
  [][ /\ AddRuleAppends
      /\ OpResolved("addRule") => storage' = Head(calls).snap
    ]_vars

(* C21, amended: addRule gives the new rule an id different from every id
   already in the store and appends it as the last element while leaving the
   existing rules and their order unchanged; when it resolves, the sequence
   with the new rule has been persisted if the storage write was fulfilled,
   and when the write was rejected persistent storage is what it was and the
   cache keeps what the operations left in it. *)
C21_AddRule ==
  [][ /\ AddRuleAppends
      /\ OpResolved("addRule")
         => /\ arg'.outcome = "written" => storage' = Head(calls).snap
            /\ arg'.outcome = "writeFailed"
               => /\ storage' = storage
                  /\ rules' = rules
    ]_vars

C21_Witness ==
  /\ arg # NoArg
  /\ arg.op = "addRule"
  /\ arg.outcome = "written"
  /\ arg.id = generateId(StartTime, 1)
  /\ EarlierRule.id \in IdsOf(arg.snap)
  /\ storage = arg.snap
  /\ rules = arg.snap

MutatingOps ==
  {"addRule", "updateRule", "deleteRule", "toggleRule", "reorderRules"}

(* the step resolves a mutating operation that changed the sequence, after
   its storage write was fulfilled *)
MutationPersisted ==
  /\ \E op \in MutatingOps : OpResolved(op)
  /\ Head(calls).changed
  /\ arg'.outcome = "written"

(* C22 as stated: when a mutating store operation (add, update, delete,
   toggle, reorder) that changed the sequence resolves and the storage write
   did not fail, the persisted sequence equals the in-memory sequence of that
   context. *)
C22_PersistedEqualsMemory ==
  [][ MutationPersisted => storage' = rules' ]_vars

(* C22, amended: when a mutating store operation that changed the sequence
   resolves and the storage write did not fail, the persisted sequence is
   the in-memory sequence as that operation left it; it equals the in-memory
   sequence of the context at that moment when no other operation of the
   context ran between the operation's call and its resolution. *)
C22_PersistedEqualsSnapshot ==
  [][ MutationPersisted
      => /\ storage' = Head(calls).snap
         /\ (arg.outcome = "pending" /\ Len(calls) = 1) => storage' = rules'
    ]_vars

C22_Witness ==
  /\ arg # NoArg
  /\ arg.op = "toggleRule"
  /\ arg.outcome = "written"
  /\ calls # <<>>
  /\ storage = arg.snap
  /\ storage # rules

(* the step settles the storage.sync.get of loadRules *)
LoadSettled ==
  arg'.op = "loadRules" /\ arg'.outcome \in {"read", "readFailed"} /\ calls' # calls

(* the step settles a storage.sync.set by rejecting it *)
WriteFailed == arg'.outcome = "writeFailed" /\ calls' # calls

(* C23: if the storage read fails or the key is absent, loadRules resolves
   (never rejects) with an empty sequence and the cache becomes empty; if the
   storage write fails, saveRules and the mutating operation that called it
   still resolve normally, with the result of the operation, and the
   in-memory mutation is kept: neither the cache nor persistent storage
   changes at the failure. *)
C23_FailuresSwallowed ==
  [][ /\ (LoadSettled /\ (arg'.outcome = "readFailed" \/ storage = <<>>))
         => /\ ev'.kind = "rules"
            /\ arg'.snap = <<>>
            /\ rules' = <<>>
      /\ WriteFailed
         => /\ ev'.kind = Head(calls).result
            /\ ev'.kind \in {"newRule", "rule", "true", "void"}
            /\ rules' = rules
            /\ storage' = storage
            /\ (arg.outcome = "pending" /\ Len(calls) = 1)
               => rules' = Head(calls).snap
    ]_vars

C23_Witness ==
  /\ arg # NoArg
  /\ arg.op = "deleteRule"
  /\ arg.outcome = "writeFailed"
  /\ ev.kind = "true"
  /\ rules = arg.snap
  /\ storage # rules

(* the step settles a loadRules that was called right after a saveRules had
   resolved, with no storage call in flight and no step in between *)
LoadAfterSave ==
  /\ LoadSettled
  /\ Head(calls).after # NoArg
  /\ Head(calls).after.op = "saveRules"
  /\ Head(calls).after.outcome \in {"written", "writeFailed"}

(* C24 as stated: saveRules followed by loadRules, with no other writer in
   between, yields a rule sequence equal to the one saved, with the same
   element order. *)
C24_RoundTrip ==
  [][ LoadAfterSave => rules' = Head(calls).after.snap ]_vars

(* C24, amended: saveRules followed by loadRules, with no other writer in
   between, yields a rule sequence equal to the one saved, with the same
   element order, when the storage write and the storage read both succeed;
   after a rejected write loadRules yields what storage held before the
   save, and after a rejected read it yields the empty sequence. *)
C24_RoundTripWhenStored ==
  [][ LoadAfterSave
      => /\ (Head(calls).after.outcome = "written" /\ arg'.outcome = "read")
            => rules' = Head(calls).after.snap
         /\ (Head(calls).after.outcome = "writeFailed" /\ arg'.outcome = "read")
            => rules' = storage
         /\ arg'.outcome = "readFailed" => rules' = <<>>
    ]_vars

C24_Witness ==
  /\ arg # NoArg
  /\ arg.op = "loadRules"
  /\ arg.outcome = "read"
  /\ arg.after # NoArg
  /\ arg.after.op = "saveRules"
  /\ arg.after.outcome = "written"
  /\ Len(arg.after.snap) = 2
  /\ arg.after.snap[2].id = generateId(StartTime, 0)
  /\ rules = arg.after.snap

(* the step is a call of op that returned without a storage call *)
OpReturnedAtOnce(op) ==
  arg'.op = op /\ arg'.outcome = "none" /\ budget' # budget

(* rs without the rules whose id is id, the others in their order *)
WithoutId(rs, id) ==
  LET kept == { k \in 1..Len(rs) : rs[k].id # id }
      nth(j) == CHOOSE k \in kept : Cardinality({ i \in kept : i < k }) = j - 1
  IN [j \in 1..Cardinality(kept) |-> rs[nth(j)]]

(* C30: updateRule and toggleRule called with an id that is not in the store
   return null, and deleteRule returns false, leaving the in-memory sequence
   unchanged and performing no storage write; deleteRule returns true exactly
   when a rule with that id was present, and then removes it while keeping
   the other rules in their relative order. *)
C30_NotFound ==
  [][ /\ \A op \in {"updateRule", "toggleRule", "deleteRule"} :
           /\ (OpCalled(op) \/ OpReturnedAtOnce(op))
              => (OpReturnedAtOnce(op) <=> arg'.id \notin IdsOf(rules))
           /\ OpReturnedAtOnce(op)
              => /\ ev'.kind = IF op = "deleteRule" THEN "false" ELSE "null"
                 /\ rules' = rules
                 /\ storage' = storage
                 /\ calls' = calls
      /\ OpCalled("deleteRule")
         => /\ arg'.id \in IdsOf(rules)
            /\ arg'.id \notin IdsOf(rules')
            /\ rules' = WithoutId(rules, arg'.id)
            /\ calls'[Len(calls')].result = "true"
      /\ OpResolved("deleteRule") => ev'.kind = "true"
    ]_vars

C30_Witness ==
  /\ arg # NoArg
  /\ arg.op = "deleteRule"
  /\ arg.id = "c"
  /\ arg.outcome = "written"
  /\ ev.kind = "true"
  /\ Len(rules) = 2
  /\ rules[1].id = EarlierRule.id
  /\ rules[2].id = "b"
  /\ storage = rules

(* the step is a call of the detector's task *)
DetectorCalled == ev'.kind \in {"urlChanged", "quiet"} /\ location' = location

(* C25: on each scheduler tick the detector emits a navigation event carrying
   the current address iff it differs from the last address it remembered
   (so the first tick always emits), and it remembers the address it emitted;
   two consecutive events never carry the same URL, and an address that
   changes and reverts between two ticks produces no event. *)
C25_Detector ==
  /\ [][ DetectorCalled
         => /\ IF location # lastUrl
               THEN /\ arg' = Append(arg, location)
                    /\ ev'.kind = "urlChanged"
               ELSE /\ arg' = arg
                    /\ ev'.kind = "quiet"
            /\ lastUrl = NoUrl => arg' = <<location>>
            /\ lastUrl' = location
       ]_vars
  /\ [](\A i \in 1..(Len(arg) - 1) : arg[i] # arg[i + 1])

(* a tick after the address changed and reverted since the tick before *)
C25_Witness ==
  /\ ev.kind = "quiet"
  /\ Len(arg) = 2
  /\ budget.nav = MaxDetectorNavs - 3
  /\ location = arg[2]
  /\ lastUrl = location

(* C26: when a registered task throws during a tick, every other registered
   task is still invoked in that tick, in registration order, and all tasks
   are invoked again on every later tick. *)
C26_ThrowingTaskIsolated ==
  [][ (ev'.kind = "tick" /\ now' # now)
      => /\ Len(arg') = Len(tasks)
         /\ \A k \in 1..Len(tasks) : arg'[k] = k
    ]_vars

(* the second tick of a scheduler whose first task throws and whose second
   rejects *)
C26_Witness ==
  /\ ev.kind = "tick"
  /\ now = StartTime + 2 * SchedulerIntervalMs
  /\ tasks = <<"throws", "rejects", "returns">>
  /\ arg = <<1, 2, 3>>

(* the Limit actions of the templates that have a startup delay *)
DelayedLimits ==
  { Templates[id].action : id \in { i \in RuleIds :
      Templates[i].action.type = "limit" /\ Templates[i].action.delayMinutes > 0 } }

(* C27: getUptime is answered with (now - startupTimestamp)/1000, where
   startupTimestamp is the value stored by the most recent startup or install
   event; when no timestamp is stored the answer is 0, so every Limit rule
   with delayMinutes > 0 is delay-gated. (Times are in milliseconds here.) *)
C27_Uptime ==
  [][ /\ ev'.kind \in {"onStartup", "onInstalled"} => startupTime' = now
      /\ startupTime' # startupTime => ev'.kind \in {"onStartup", "onInstalled"}
      /\ ev'.kind = "getUptime"
         => /\ startupTime # 0 => arg'.uptimeMs = now - startupTime
            /\ startupTime = 0
               => /\ arg'.uptimeMs = 0
                  /\ \A a \in DelayedLimits : DelayGate(a, arg'.uptimeMs)
    ]_vars

(* an answer 35 s after the startup time stored during the run, the install
   listener having written the default settings *)
C27_Witness ==
  /\ ev.kind = "getUptime"
  /\ startupTime = StartTime + FreshnessMs
  /\ now = StartTime + 2 * FreshnessMs + MonitorIntervalMs
  /\ arg = [uptimeMs |-> FreshnessMs + MonitorIntervalMs]
  /\ popupSettings = <<DefaultSettings>>

(* the step is a run of the countdown test of a limit notice that carries
   allowedAt: at the page's load or at a firing of its timer *)
CountdownChecked ==
  /\ alert.type = "limit"
  /\ alert.allowedAt # NoAllowedAt
  /\ now' = now
  /\ ev'.kind \in {"countdown", "redirect"}

(* C28: for reason=limit with an allowedAt parameter, the notice page
   redirects to the target URL only at a time >= allowedAt: while allowedAt is
   in the future it keeps counting down, re-checking every second, and it
   redirects at the first check at or after allowedAt; for reason=block it
   never redirects by itself. *)
C28_Countdown ==
  [][ /\ CountdownChecked
         => IF now >= alert.allowedAt
            THEN /\ alert' = NoAlert
                 /\ location' = alert.currentUrl
                 /\ intervals' = {}
            ELSE /\ alert' = alert
                 /\ Cardinality(intervals') = 1
                 /\ \A timer \in intervals' :
                      timer.nextFire = now + CountdownIntervalMs
      /\ (alert.type = "limit" /\ alert.allowedAt # NoAllowedAt
          /\ alert' = NoAlert)
         => now >= alert.allowedAt
      /\ alert.type = "block" => (alert' = alert /\ intervals' = {})
    ]_vars

(* the page opened 1.5 s before allowedAt and sent the tab back 2 s after it
   opened *)
C28_Witness ==
  /\ ev.kind = "redirect"
  /\ arg # NoArg
  /\ arg.type = "limit"
  /\ arg.allowedAt = StartTime + CountdownIntervalMs + CountdownIntervalMs \div 2
  /\ now = StartTime + 2 * CountdownIntervalMs
  /\ location = arg.currentUrl
  /\ alert = NoAlert

(* C29: for every URL and pattern and each of the five positive match modes,
   the matcher of the corresponding Not mode returns the logical negation of
   the positive mode's result; for a pattern that new RegExp rejects neither
   the regex nor the notRegex matcher returns: both throw. *)
C29_NotModesNegate ==
  ev.kind = "match"
  => /\ arg.positive = "true" => arg.negative = "false"
     /\ arg.positive = "false" => arg.negative = "true"
     /\ arg.positive = "throws" <=> arg.negative = "throws"
     /\ arg.positive = "throws"
        => (rules[1].matchType = "regex" /\ rules[1].pattern = <<"(">>)

(* an address that ends with the pattern without starting with it *)
C29_Witness ==
  /\ ev.kind = "match"
  /\ rules[1].matchType = "endsWith"
  /\ rules[1].pattern = <<"y", "s">>
  /\ location = <<"w", "y", "s">>
  /\ arg = [positive |-> "true", negative |-> "false"]

(* C31: the install/update listener writes the default popup settings only
   when none are stored, and stores the default enabled Block rule for
   YouTube Shorts only when the stored rule sequence is absent or empty;
   stored settings and a non-empty stored rule sequence are left as they
   are, each independently of the other, and no other listener of the
   background script writes either. *)
C31_InstallDefaults ==
  [][ /\ ev'.kind = "onInstalled"
         => /\ popupSettings = <<>> => popupSettings' = <<DefaultSettings>>
            /\ popupSettings # <<>> => popupSettings' = popupSettings
            /\ storage = <<>>
               => /\ Len(storage') = 1
                  /\ storage'[1].title = "Block YouTube Shorts"
                  /\ storage'[1].action = BlockAction
                  /\ storage'[1].matchType = "contains"
                  /\ storage'[1].enabled
            /\ storage # <<>> => storage' = storage
      /\ ev'.kind # "onInstalled"
         => /\ popupSettings' = popupSettings
            /\ storage' = storage
    ]_vars

(* an update over stored settings and no rules: the settings are kept, the
   default rule is stored under the id of that moment *)
C31_Witness ==
  /\ ev.kind = "onInstalled"
  /\ popupSettings = <<[hideYoutubeShorts |-> FALSE, halalMode |-> TRUE]>>
  /\ storage = <<DefaultRule(StartTime + FreshnessMs)>>
  /\ startupTime = StartTime + FreshnessMs

(* the monitored rule is stored, enabled, of type Limit with allowedMinutes
   > 0 and an elapsed delay, and is the first enabled match of the address
   the page context stays on *)
MonitoredRuleApplies ==
  /\ location = FirstUrl
  /\ FirstEnabledMatch(storage, location) = 1
  /\ storage[1].id = MonitoredRule.id
  /\ storage[1].action.type = "limit"
  /\ storage[1].action.allowedMinutes > 0
  /\ ~DelayGate(storage[1].action, UptimeMs(now))

(* the last moment from which the monitor, had it kept running, uses up
   the rest of the quota within the modelled session *)
RestoreBy == StartTime + 2 * MonitorIntervalMs

(* C32: a page context that stays on an address whose first enabled match
   is a Limit rule with allowedMinutes > 0 and elapsed delay is eventually
   redirected to the limit notice once the rule stays stored, enabled,
   matching and of type Limit, the monitor's ticks firing and no reset
   window elapsing, also when the rule was disabled or unreadable for a
   while earlier in the session. *)
C32_EventuallyRedirected ==
  <>(now <= RestoreBy /\ []MonitoredRuleApplies) => <>(alert.type = "limit")

(* the same for sessions in which the rule applies throughout and every read
   of the store succeeds *)
RedirectedWhenUndisturbed ==
  [](MonitoredRuleApplies /\ budget.fail = MaxReadFailures)
    => <>(alert.type = "limit")

(* rule r is rule q but for the usage state of a Limit action *)
SameButUsage(r, q) ==
  /\ r.id = q.id /\ r.title = q.title /\ r.pattern = q.pattern
  /\ r.matchType = q.matchType /\ r.enabled = q.enabled
  /\ r.action.type = q.action.type
  /\ r.action.type = "limit"
     => /\ r.action.allowedMinutes = q.action.allowedMinutes
        /\ r.action.resetAfterMinutes = q.action.resetAfterMinutes
        /\ r.action.delayMinutes = q.action.delayMinutes

(* C33: a rule deleted or edited through the rule store in one context is
   not undone by a page context: a navigation event or monitor tick of a
   context whose cache was loaded before the change writes usage only, so
   the stored sequence keeps its rules, and every rule its fields other
   than the usage state, across every write of the engine. *)
C33_NoWriteBack ==
  [][ ev'.kind \in {"navUpdate", "tickUpdate"}
      => /\ Len(storage') = Len(storage)
         /\ \A k \in 1..Len(storage) : SameButUsage(storage'[k], storage[k])
    ]_vars

(* C34: no navigation event is matched against the empty initial cache
   while the store holds rules: whenever applyRule dispatches on an address
   for which the store, written by no other context since, has an enabled
   Block rule as the rule find() returns, the dispatch is that rule's
   redirect, also for an applyRule started while the first lazy load was
   still awaiting the store. *)
C34_StoredRulesEvaluated ==
  [][ ( /\ ev'.kind \in DispatchKinds
        /\ budget.edit = MaxEdits
        /\ FindMatched(storage, location) > 0
        /\ storage[FindMatched(storage, location)].action.type = "block" )
      => /\ ev'.kind = "block"
         /\ alert'.type = "block"
    ]_vars

(* C36: for every idSequence, also one with unknown ids or with the same id
   more than once, reorderRules leaves the store holding exactly the rules
   it held before, each exactly once: rule ids stay unique and no rule is
   lost or duplicated. *)
C36_ReorderKeepsRules ==
  [][ (ev'.kind = "reorder" /\ budget' # budget /\ HasDistinctIds(rules))
      => /\ Len(rules') = Len(rules)
         /\ HasDistinctIds(rules')
         /\ \A k \in 1..Len(rules) : \E j \in 1..Len(rules') :
              rules'[j] = rules[k]
         /\ storage' = rules'
    ]_vars

(* C37: editing an existing Limit rule through the options form, say its
   title or pattern only, leaves the rule's accumulated usage state
   (usedMinutes, lastResetAt, lastUsedAt) as it was, so an edit cannot
   refill an exhausted quota. *)
C37_EditKeepsUsage ==
  [][ ev'.kind = "update"
      => LET k == getRuleById(rules, ev'.id) IN
         (rules[k].action.type = "limit" /\ rules'[k].action.type = "limit")
         => /\ rules'[k].action.usedMs = rules[k].action.usedMs
            /\ rules'[k].action.lastResetAt = rules[k].action.lastResetAt
            /\ rules'[k].action.lastUsedAt = rules[k].action.lastUsedAt
            /\ storage'[k].action = rules'[k].action
    ]_vars

(* the page context was opened by a limit notice sending the tab back *)
Returned == arg # NoArg

(* C35: after a quota redirect for a Limit rule with allowedMinutes > 0 and
   resetAfterMinutes > 0, the notice page sending the tab back at or after
   allowedAt, the next navigation event of the engine resets the usage
   window (usedMinutes 0, lastResetAt now) and the gates then grant access,
   so the tab does not go back to the notice page; no other context writes
   the rule in between. *)
C35_ReturnIsGranted ==
  [][ Returned
      => /\ ev'.kind = "navUpdate"
            => /\ rules'[1].action.usedMs = 0
               /\ rules'[1].action.lastResetAt = now
               /\ storage' = rules'
         /\ ev'.kind \in {"delayRedirect", "quotaRedirect"} \cup GrantKinds
            => ev'.kind \in GrantKinds
    ]_vars

(* back at the very moment allowedAt, after a quota redirect at the first
   navigation, and granted access *)
C35_Witness ==
  /\ Returned
  /\ arg.at = arg.notice.allowedAt
  /\ ev.kind = "grant"
  /\ rules[1].action.usedMs = 0
  /\ rules[1].action.lastResetAt = arg.at
  /\ Alive

(* the usage recorded in a Limit action is at most the time between the
   start of its window and its last accounting; an action the form has made
   and no updateLimitRuleUsage has touched yet has lastUsedAt 0 *)
UsageWithinWindow(a) ==
  a.type = "limit" /\ a.lastUsedAt # 0
  => a.usedMs <= a.lastUsedAt - a.lastResetAt

(* C38: with a non-decreasing clock, after every updateLimitRuleUsage on a
   Limit rule made by the form or a preset the recorded usage is at most
   the wall-clock time since the window started, usedMinutes*60000 <=
   lastUsedAt - lastResetAt, in the cache of the page context and in
   persistent storage, whatever the interleaving of the contexts that
   account the rule. *)
C38_UsageWithinWindow ==
  /\ \A k \in 1..Len(storage) : UsageWithinWindow(storage[k].action)
  /\ \A k \in 1..Len(rules) : UsageWithinWindow(rules[k].action)

(* rule b, made by the form, accounted by another tab and then from the
   cache of this context, all the time since its window began counted *)
C38_Witness ==
  /\ ev.kind = "navUpdate"
  /\ ev.id = "b"
  /\ budget.edit = 0
  /\ acct # NoAcct
  /\ \E k \in 1..Len(storage) :
       /\ storage[k].id = "b"
       /\ rules[k] = storage[k]
       /\ storage[k].action.usedMs > 0
       /\ storage[k].action.usedMs
            = storage[k].action.lastUsedAt - storage[k].action.lastResetAt

====
